---- MODULE Spec2Model ----
(***************************************************************************)
(* Snapshot-set orchestration of module_utils/snapshot_lsr/lvm.py and the  *)
(* volume list of module_utils/snapshot_lsr/utils.py.                      *)
(*                                                                         *)
(* The volume manager is the system of record: the state is its inventory  *)
(* (volume groups and logical volumes), the mount table, and the result of *)
(* the last command entry point that ran.  Every command entry point       *)
(* (snapshot_cmd, check_cmd, remove_cmd, revert_cmd, extend_cmd,           *)
(* mount_cmd, umount_cmd) is one atomic action: the engine is single       *)
(* threaded and blocks on every external call.                             *)
(*                                                                         *)
(* Spec runs the volume-manager commands on an inventory that other        *)
(* processes change too; MountSpec runs the six mutating commands, mount   *)
(* and umount included, on an inventory nobody else touches; FaultSpec     *)
(* runs the commands while lvs or the full report fails.  SizeSpec,        *)
(* ProbeSpec, NameSpec, MountVerifySpec and PercentSpec apply              *)
(* get_snapshot_size_required, the inventory probes, the name check (and   *)
(* create), mount_verify and check_required_space to arguments drawn from  *)
(* bounded sets; ArgsSpec does the same for get_json_from_args and         *)
(* list_cmd.                                                               *)
(*                                                                         *)
(* Sizes are counted in MiB.  Every size the inventory reports is a whole  *)
(* number of MiB, and rounding up to an extent that is a whole number of   *)
(* MiB gives the same result in bytes and in MiB.                          *)
(***************************************************************************)
EXTENDS Integers, Sequences, FiniteSets, TLC

(***************************************************************************)
(* Bounds of the model.                                                    *)
(***************************************************************************)
\* longest volume list of a snapshot set
MaxVolumes == 2

\* longest string given as the requested percentage
MaxPercentLen == 3

(***************************************************************************)
(* Program constants.                                                      *)
(***************************************************************************)
LVM_NOTFOUND_RC == 5
MAX_LVM_NAME == 127
\* 512 * 1024**2 bytes, in MiB
LVM_MIN_SNAPSHOT_SIZE == 512

(***************************************************************************)
(* SnapshotStatus members used by lvm.py (module consts), by name.         *)
(***************************************************************************)
SnapshotStatus ==
    [ SNAPSHOT_OK |-> "SNAPSHOT_OK",
      ERROR_ALREADY_EXISTS |-> "ERROR_ALREADY_EXISTS",
      ERROR_NAME_CONFLICT |-> "ERROR_NAME_CONFLICT",
      ERROR_NAME_TOO_LONG |-> "ERROR_NAME_TOO_LONG",
      ERROR_SNAPSHOT_FAILED |-> "ERROR_SNAPSHOT_FAILED",
      ERROR_LVS_FAILED |-> "ERROR_LVS_FAILED",
      ERROR_JSON_PARSER_ERROR |-> "ERROR_JSON_PARSER_ERROR",
      ERROR_INVALID_PERCENT_REQUESTED |-> "ERROR_INVALID_PERCENT_REQUESTED",
      ERROR_LV_NOTFOUND |-> "ERROR_LV_NOTFOUND",
      ERROR_REMOVE_FAILED |-> "ERROR_REMOVE_FAILED",
      ERROR_REMOVE_FAILED_NOT_SNAPSHOT |-> "ERROR_REMOVE_FAILED_NOT_SNAPSHOT",
      ERROR_REMOVE_FAILED_INUSE |-> "ERROR_REMOVE_FAILED_INUSE",
      ERROR_REVERT_FAILED |-> "ERROR_REVERT_FAILED",
      ERROR_EXTEND_NOT_SNAPSHOT |-> "ERROR_EXTEND_NOT_SNAPSHOT",
      ERROR_EXTEND_NOT_FOUND |-> "ERROR_EXTEND_NOT_FOUND",
      ERROR_EXTEND_FAILED |-> "ERROR_EXTEND_FAILED",
      ERROR_EXTEND_VERIFY_FAILED |-> "ERROR_EXTEND_VERIFY_FAILED",
      ERROR_VERIFY_COMMAND_FAILED |-> "ERROR_VERIFY_COMMAND_FAILED",
      ERROR_VERIFY_NOTSNAPSHOT |-> "ERROR_VERIFY_NOTSNAPSHOT",
      ERROR_VERIFY_REMOVE_FAILED |-> "ERROR_VERIFY_REMOVE_FAILED",
      ERROR_SNAPSET_CHECK_STATUS_FAILED |-> "ERROR_SNAPSET_CHECK_STATUS_FAILED",
      ERROR_SNAPSET_SOURCE_DOES_NOT_EXIST |-> "ERROR_SNAPSET_SOURCE_DOES_NOT_EXIST",
      ERROR_SNAPSET_INSUFFICIENT_SPACE |-> "ERROR_SNAPSET_INSUFFICIENT_SPACE",
      ERROR_MOUNT_INVALID_PARAMS |-> "ERROR_MOUNT_INVALID_PARAMS",
      ERROR_MOUNT_POINT_ALREADY_MOUNTED |-> "ERROR_MOUNT_POINT_ALREADY_MOUNTED",
      ERROR_MOUNT_VERIFY_FAILED |-> "ERROR_MOUNT_VERIFY_FAILED",
      ERROR_MOUNT_FAILED |-> "ERROR_MOUNT_FAILED",
      ERROR_UMOUNT_NOT_MOUNTED |-> "ERROR_UMOUNT_NOT_MOUNTED",
      ERROR_UMOUNT_FAILED |-> "ERROR_UMOUNT_FAILED" ]

(***************************************************************************)
(* The universe of names the model draws from.                             *)
(***************************************************************************)
VGNames == {"vg1", "vg2", "vg3"}
LVNames == {"a", "b"}
SnapsetNames == {"s"}
Percents == {20, 60}
\* mount and umount never read the percentage: their sets carry this one
MountPercent == CHOOSE p \in Percents : \A q \in Percents : p <= q
\* the mount_origin flag of the members of a mounted set
MountOrigins == {FALSE}

\* the order in which 'lvm fullreport' lists volume groups, and logical
\* volumes inside a group
VGOrder == <<"vg1", "vg2">>
LVOrder == <<"a", "b", "a_s", "b_s", "pool">>

Range(f) == {f[i] : i \in DOMAIN f}

(***************************************************************************)
(* lvm_utils (not part of the sources at hand): percentof and round_up.    *)
(* percentof is kept as the fraction percent * whole / 100.                *)
(***************************************************************************)
percentof(percent, whole) == [num |-> percent * whole, den |-> 100]

math_ceil(q) == (q.num + q.den - 1) \div q.den

round_up(value, multiple) == ((value + multiple - 1) \div multiple) * multiple

\* get_snapshot_size_required, were it not to round to the extent size
get_snapshot_size_required_unrounded(lv_size, required_percent, extent_size) ==
    LET required == math_ceil(percentof(required_percent, lv_size))
    IN  IF required < LVM_MIN_SNAPSHOT_SIZE
        THEN LVM_MIN_SNAPSHOT_SIZE
        ELSE required

\* get_snapshot_size_required, were it to return twice the minimum below it
get_snapshot_size_required_double_floor(lv_size, required_percent, extent_size) ==
    LET required == round_up(math_ceil(percentof(required_percent, lv_size)), extent_size)
    IN  IF required < LVM_MIN_SNAPSHOT_SIZE
        THEN 2 * LVM_MIN_SNAPSHOT_SIZE
        ELSE required

\* get_snapshot_size_required, were it to have no minimum
get_snapshot_size_required_no_floor(lv_size, required_percent, extent_size) ==
    round_up(math_ceil(percentof(required_percent, lv_size)), extent_size)

get_snapshot_size_required(lv_size, required_percent, extent_size) ==
    LET required == round_up(math_ceil(percentof(required_percent, lv_size)), extent_size)
    IN  IF required < LVM_MIN_SNAPSHOT_SIZE
        THEN LVM_MIN_SNAPSHOT_SIZE
        ELSE required

\* an exception that a function raises instead of returning a status
LvmBug == "LvmBug"
TypeError == "TypeError"

\* Python's None given as a suffix; no name is this string
None == "None()"

\* 'if suffix' is false for None and for the empty string
get_snapshot_name(lv_name, suffix) ==
    LET suffix_str == IF suffix # None /\ suffix # "" THEN suffix ELSE ""
    IN  lv_name \o "_" \o suffix_str

\* the message of the failure is lv_name + suffix, which raises TypeError
\* when suffix is None
check_name_for_snapshot(lv_name, suffix) ==
    LET suffix_len == IF suffix # None /\ suffix # "" THEN Len(suffix) ELSE 0
    IN  IF Len(lv_name) + suffix_len > MAX_LVM_NAME
        THEN IF suffix = None THEN TypeError ELSE SnapshotStatus.ERROR_NAME_TOO_LONG
        ELSE SnapshotStatus.SNAPSHOT_OK

(***************************************************************************)
(* Volume Manager Interface.  A world w is the inventory: w.vgs maps each  *)
(* existing volume group to its capacity facts, w.lvs maps each existing   *)
(* <<vg, lv>> to [kind, lv_size, open].                                    *)
(***************************************************************************)
VgExists(w, vg_name) == vg_name \in DOMAIN w.vgs

LvExists(w, vg_name, lv_name) == <<vg_name, lv_name>> \in DOMAIN w.lvs

\* the lv_attr column of 'lvs': character 1 is the volume type, character 6
\* the device-open flag
LvAttr(lv) ==
    << IF lv.kind = "snapshot" THEN "s" ELSE IF lv.kind = "thinpool" THEN "t" ELSE "-",
       "w", "i", "-", "a",
       IF lv.open THEN "o" ELSE "-",
       "-", "-", "-", "-" >>

\* 'lvs vg' and 'lvs vg/lv': exit code 0 when the object exists, 5 when not;
\* w.fault, when not 0, is the exit code with which lvs fails for another
\* reason (locking, I/O, permissions)
run_lvs_vg(w, vg_name) ==
    IF w.fault # 0 THEN w.fault
    ELSE IF VgExists(w, vg_name) THEN 0 ELSE LVM_NOTFOUND_RC

run_lvs(w, vg_name, lv_name) ==
    IF w.fault # 0 THEN w.fault
    ELSE IF LvExists(w, vg_name, lv_name) THEN 0 ELSE LVM_NOTFOUND_RC

\* 'lvs --reportformat json vg/lv': the exit code, whether json.loads
\* decodes the output, and the decoded report.  w.lvs_output tells what lvs
\* prints for an existing vg/lv: one record ("ok"), the report entry twice
\* ("two_reports"), the volume record twice ("two_lvs"), or text that is not
\* JSON ("garbage")
run_lvs_json(w, vg_name, lv_name) ==
    LET Report(row) ==
            IF w.lvs_output = "two_reports"
            THEN << [lv |-> <<row>>], [lv |-> <<row>>] >>
            ELSE IF w.lvs_output = "two_lvs"
            THEN << [lv |-> <<row, row>>] >>
            ELSE << [lv |-> <<row>>] >>
    IN  IF w.fault # 0
        THEN [rc |-> w.fault, decoded |-> FALSE, report |-> << >>]
        ELSE IF ~LvExists(w, vg_name, lv_name)
        THEN [rc |-> LVM_NOTFOUND_RC, decoded |-> FALSE, report |-> << >>]
        ELSE IF w.lvs_output = "garbage"
        THEN [rc |-> 0, decoded |-> FALSE, report |-> << >>]
        ELSE [rc |-> 0, decoded |-> TRUE,
              report |-> Report([lv_name |-> lv_name,
                                 lv_attr |-> LvAttr(w.lvs[<<vg_name, lv_name>>])])]

DEV_PREFIX == "/dev"

path_join(prefix, vg_name, lv_name) == prefix \o "/" \o vg_name \o "/" \o lv_name

\* 'lvm fullreport': one item per volume group, in VGOrder, each with its
\* logical volumes in LVOrder
FullReportItem(w, vg_name) ==
    [vg |-> [vg_name |-> vg_name,
             vg_size |-> w.vgs[vg_name].vg_size,
             vg_free |-> w.vgs[vg_name].vg_free,
             vg_extent_size |-> w.vgs[vg_name].vg_extent_size],
     lv |-> LET Rows(present) ==
                    [i \in 1..Len(present) |->
                        [lv_name |-> present[i],
                         lv_path |-> path_join(DEV_PREFIX, vg_name, present[i]),
                         lv_size |-> w.lvs[<<vg_name, present[i]>>].lv_size,
                         lv_attr |-> LvAttr(w.lvs[<<vg_name, present[i]>>])]]
            IN  Rows(SelectSeq(LVOrder, LAMBDA n : LvExists(w, vg_name, n)))]

\* w.report_fault tells how 'lvm fullreport' goes: "none", a non-zero exit
\* ("exit") or output that is not JSON ("decode"); both failures raise LvmBug
\* (raised), and otherwise report is the decoded list
lvm_full_report_json(w) ==
    LET Items(present) == [i \in 1..Len(present) |-> FullReportItem(w, present[i])]
    IN  IF w.report_fault = "exit"
        THEN [raised |-> TRUE, report |-> << >>]
        ELSE IF w.report_fault = "decode"
        THEN [raised |-> TRUE, report |-> << >>]
        ELSE [raised |-> FALSE,
              report |-> Items(SelectSeq(VGOrder, LAMBDA v : VgExists(w, v)))]

\* vg_include is None (is_none) or a compiled pattern, given as the set of
\* the volume group names in which the pattern is found (search)
vgs_lvs_iterator(w, vg_name, lv_name, vg_include, omit_empty_lvs) ==
    LET Items(report) ==
            [i \in 1..Len(report) |->
                [vg |-> report[i].vg,
                 lvs |-> SelectSeq(report[i].lv,
                             LAMBDA lv : lv_name = "" \/ lv_name = lv.lv_name)]]
    IN  SelectSeq(Items(lvm_full_report_json(w).report),
            LAMBDA it : /\ it.vg.vg_name # ""
                        /\ (vg_name = "" \/ vg_name = it.vg.vg_name)
                        /\ (vg_include.is_none \/ it.vg.vg_name \in vg_include.search)
                        /\ (it.lvs # << >> \/ ~omit_empty_lvs))

(***************************************************************************)
(* Inventory probes.                                                       *)
(***************************************************************************)
lvm_lv_exists(w, vg_name, lv_name) ==
    IF vg_name = ""
    THEN [rc |-> SnapshotStatus.SNAPSHOT_OK, vg_exists |-> FALSE, lv_exists |-> FALSE]
    ELSE LET vg_exists == run_lvs_vg(w, vg_name) = 0
         IN  IF lv_name = ""
             THEN [rc |-> SnapshotStatus.SNAPSHOT_OK, vg_exists |-> vg_exists, lv_exists |-> FALSE]
             ELSE [rc |-> SnapshotStatus.SNAPSHOT_OK, vg_exists |-> vg_exists,
                   lv_exists |-> run_lvs(w, vg_name, lv_name) = 0]

\* an attribute query that reads the first record of whatever lvs reports;
\* used to show that C22 rests on the check of the record count
lvm_get_attr_first_record(w, vg_name, lv_name) ==
    LET out == run_lvs_json(w, vg_name, lv_name)
    IN  IF out.rc = LVM_NOTFOUND_RC
        THEN [rc |-> SnapshotStatus.SNAPSHOT_OK, is_false |-> TRUE, attr |-> << >>]
        ELSE IF out.rc # 0
        THEN [rc |-> SnapshotStatus.ERROR_LVS_FAILED, is_false |-> FALSE, attr |-> << >>]
        ELSE IF ~out.decoded
        THEN [rc |-> SnapshotStatus.ERROR_JSON_PARSER_ERROR, is_false |-> FALSE, attr |-> << >>]
        ELSE [rc |-> SnapshotStatus.SNAPSHOT_OK, is_false |-> FALSE,
              attr |-> out.report[1].lv[1].lv_attr]

\* attr is the lv_attr string; is_false tells that the value returned is the
\* boolean False (volume not found) and not a string
lvm_get_attr(w, vg_name, lv_name) ==
    LET out == run_lvs_json(w, vg_name, lv_name)
    IN  IF out.rc = LVM_NOTFOUND_RC
        THEN [rc |-> SnapshotStatus.SNAPSHOT_OK, is_false |-> TRUE, attr |-> << >>]
        ELSE IF out.rc # 0
        THEN [rc |-> SnapshotStatus.ERROR_LVS_FAILED, is_false |-> FALSE, attr |-> << >>]
        ELSE IF ~out.decoded
        THEN [rc |-> SnapshotStatus.ERROR_JSON_PARSER_ERROR, is_false |-> FALSE, attr |-> << >>]
        ELSE IF Len(out.report) > 1 \/ Len(out.report[1].lv) > 1
        THEN [rc |-> LvmBug, is_false |-> FALSE, attr |-> << >>]
        ELSE IF Len(out.report[1].lv[1].lv_attr) = 0
        THEN [rc |-> LvmBug, is_false |-> FALSE, attr |-> << >>]
        ELSE [rc |-> SnapshotStatus.SNAPSHOT_OK, is_false |-> FALSE,
              attr |-> out.report[1].lv[1].lv_attr]

\* the status returned by lvm_get_attr is never the exit code 5, so the
\* branch 'rc == LVM_NOTFOUND_RC' is not taken; lv_attr[0] of the boolean
\* False raises TypeError
lvm_is_snapshot(w, vg_name, lv_name) ==
    LET got == lvm_get_attr(w, vg_name, lv_name)
    IN  IF got.rc = LvmBug
        THEN [rc |-> LvmBug, value |-> FALSE]
        ELSE IF got.rc # SnapshotStatus.SNAPSHOT_OK
        THEN [rc |-> SnapshotStatus.ERROR_LVS_FAILED, value |-> FALSE]
        ELSE IF got.is_false
        THEN [rc |-> TypeError, value |-> FALSE]
        ELSE [rc |-> SnapshotStatus.SNAPSHOT_OK, value |-> got.attr[1] = "s"]

\* lv_attr[0] of the boolean False raises TypeError
lvm_is_thinpool(w, vg_name, lv_name) ==
    LET got == lvm_get_attr(w, vg_name, lv_name)
    IN  IF got.rc = LvmBug
        THEN [rc |-> LvmBug, value |-> FALSE]
        ELSE IF got.rc # SnapshotStatus.SNAPSHOT_OK
        THEN [rc |-> SnapshotStatus.ERROR_LVS_FAILED, value |-> FALSE]
        ELSE IF got.is_false
        THEN [rc |-> TypeError, value |-> FALSE]
        ELSE [rc |-> SnapshotStatus.SNAPSHOT_OK, value |-> got.attr[1] = "t"]

lvm_is_inuse(w, vg_name, lv_name) ==
    LET out == run_lvs_json(w, vg_name, lv_name)
    IN  IF out.rc = LVM_NOTFOUND_RC
        THEN [rc |-> SnapshotStatus.SNAPSHOT_OK, value |-> FALSE]
        ELSE IF out.rc # 0
        THEN [rc |-> SnapshotStatus.ERROR_LVS_FAILED, value |-> FALSE]
        ELSE IF ~out.decoded
        THEN [rc |-> SnapshotStatus.ERROR_JSON_PARSER_ERROR, value |-> FALSE]
        ELSE IF Len(out.report) > 1 \/ Len(out.report[1].lv) > 1
        THEN [rc |-> LvmBug, value |-> FALSE]
        ELSE IF Len(out.report[1].lv[1].lv_attr) = 0
        THEN [rc |-> LvmBug, value |-> FALSE]
        ELSE [rc |-> SnapshotStatus.SNAPSHOT_OK, value |-> out.report[1].lv[1].lv_attr[6] = "o"]

(***************************************************************************)
(* Space accounting.  VGSpaceState.lvs is a class attribute: the one       *)
(* dictionary is shared by every VGSpaceState instance of the process, so  *)
(* an entry written for one volume group is read back for every group.     *)
(* class_lvs is that dictionary; a command starts with it empty.           *)
(***************************************************************************)
DictPut(d, k, v) == [x \in (DOMAIN d) \cup {k} |-> IF x = k THEN v ELSE d[x]]

RECURSIVE SpaceStateLvs(_, _, _)
SpaceStateLvs(lv_list, i, class_lvs) ==
    IF i > Len(lv_list)
    THEN class_lvs
    ELSE SpaceStateLvs(lv_list, i + 1,
             DictPut(class_lvs, lv_list[i].lv_name, [lv_size |-> lv_list[i].lv_size]))

RECURSIVE SpaceStateVgs(_, _, _)
SpaceStateVgs(items, i, class_lvs) ==
    IF i > Len(items)
    THEN class_lvs
    ELSE SpaceStateVgs(items, i + 1, SpaceStateLvs(items[i].lvs, 1, class_lvs))

\* the returned vg_size_dict; every entry's lvs is the shared dictionary
get_current_space_state(w, class_lvs) ==
    LET State(items, shared) ==
            [rc |-> SnapshotStatus.SNAPSHOT_OK,
             class_lvs |-> shared,
             dict |-> [v \in {items[i].vg.vg_name : i \in DOMAIN items} |->
                         LET it == CHOOSE x \in Range(items) : x.vg.vg_name = v
                         IN  [vg_free |-> it.vg.vg_free,
                              vg_size |-> it.vg.vg_size,
                              vg_extent_size |-> it.vg.vg_extent_size,
                              lvs |-> shared]]]
        Fill(items) == State(items, SpaceStateVgs(items, 1, class_lvs))
    IN  IF lvm_full_report_json(w).raised
        THEN [rc |-> LvmBug, class_lvs |-> class_lvs, dict |-> << >>]
        ELSE Fill(vgs_lvs_iterator(w, "", "", [is_none |-> TRUE, search |-> {}], FALSE))

get_space_needed(vg, lv, percent_space_required, current_space_dict) ==
    LET lv_size == current_space_dict[vg].lvs[lv].lv_size
        extent_size == current_space_dict[vg].vg_extent_size
    IN  get_snapshot_size_required(lv_size, percent_space_required, extent_size)

(***************************************************************************)
(* Mutating commands of the Volume Manager Interface.  A run st is the     *)
(* process state of one command: the inventory st.w, the mutating commands *)
(* run so far st.cmds, the class dictionary st.class_lvs, and st.failAt,   *)
(* the position of the mutating command that the volume manager fails      *)
(* (0: none is failed).                                                    *)
(***************************************************************************)
KeyError == "KeyError"

IsException(rc) == rc \in {LvmBug, TypeError, KeyError}

WorldAdd(w, vg_name, lv_name, lv) ==
    [w EXCEPT !.lvs = DictPut(@, <<vg_name, lv_name>>, lv),
              !.vgs[vg_name].vg_free = @ - lv.lv_size]

WorldDel(w, vg_name, lv_name) ==
    [w EXCEPT !.lvs = [k \in (DOMAIN w.lvs) \ {<<vg_name, lv_name>>} |-> w.lvs[k]],
              !.vgs[vg_name].vg_free = @ + w.lvs[<<vg_name, lv_name>>].lv_size]

WorldResize(w, vg_name, lv_name, size) ==
    [w EXCEPT !.lvs[<<vg_name, lv_name>>].lv_size = size,
              !.vgs[vg_name].vg_free = @ - (size - w.lvs[<<vg_name, lv_name>>].lv_size)]

RunMutate(st, cmd, accepted, w_after) ==
    LET ok == accepted /\ Len(st.cmds) + 1 # st.failAt
    IN  [rc |-> IF ok THEN 0 ELSE 1,
         st |-> [st EXCEPT !.w = IF ok THEN w_after ELSE st.w,
                           !.cmds = Append(@, [cmd EXCEPT !.rc = IF ok THEN 0 ELSE 1])]]

\* lvcreate -s -n snapshot_name -L size vg/lv
run_lvcreate(st, vg_name, lv_name, snapshot_name, size) ==
    RunMutate(st,
        [cmd |-> "lvcreate", vg |-> vg_name, lv |-> snapshot_name, size |-> size, rc |-> 0],
        /\ LvExists(st.w, vg_name, lv_name)
        /\ ~LvExists(st.w, vg_name, snapshot_name)
        /\ size <= st.w.vgs[vg_name].vg_free,
        WorldAdd(st.w, vg_name, snapshot_name,
            [kind |-> "snapshot", lv_size |-> size, open |-> FALSE]))

\* lvremove -y vg/lv: refused for an open volume
run_lvremove(st, vg_name, lv_name) ==
    RunMutate(st,
        [cmd |-> "lvremove", vg |-> vg_name, lv |-> lv_name, size |-> 0, rc |-> 0],
        LvExists(st.w, vg_name, lv_name) /\ ~st.w.lvs[<<vg_name, lv_name>>].open,
        WorldDel(st.w, vg_name, lv_name))

\* lvconvert --merge vg/lv: a merge that succeeds removes the snapshot
run_lvconvert_merge(st, vg_name, lv_name) ==
    RunMutate(st,
        [cmd |-> "lvconvert", vg |-> vg_name, lv |-> lv_name, size |-> 0, rc |-> 0],
        /\ LvExists(st.w, vg_name, lv_name)
        /\ st.w.lvs[<<vg_name, lv_name>>].kind = "snapshot",
        WorldDel(st.w, vg_name, lv_name))

\* lvextend -L size vg/lv
run_lvextend(st, vg_name, lv_name, size) ==
    RunMutate(st,
        [cmd |-> "lvextend", vg |-> vg_name, lv |-> lv_name, size |-> size, rc |-> 0],
        /\ LvExists(st.w, vg_name, lv_name)
        /\ size > st.w.lvs[<<vg_name, lv_name>>].lv_size
        /\ size - st.w.lvs[<<vg_name, lv_name>>].lv_size <= st.w.vgs[vg_name].vg_free,
        WorldResize(st.w, vg_name, lv_name, size))

(***************************************************************************)
(* Create.                                                                 *)
(***************************************************************************)
snapshot_lv(st, vg_name, lv_name, suffix, snap_size, check_mode) ==
    LET snapshot_name == get_snapshot_name(lv_name, suffix)
        ex == lvm_lv_exists(st.w, vg_name, snapshot_name)
    IN  IF ex.lv_exists
        THEN LET is == lvm_is_snapshot(st.w, vg_name, snapshot_name)
             IN  IF IsException(is.rc)
                 THEN [rc |-> is.rc, st |-> st]
                 ELSE IF is.rc # SnapshotStatus.SNAPSHOT_OK
                 THEN [rc |-> SnapshotStatus.ERROR_VERIFY_COMMAND_FAILED, st |-> st]
                 ELSE IF is.value
                 THEN [rc |-> SnapshotStatus.ERROR_ALREADY_EXISTS, st |-> st]
                 ELSE [rc |-> SnapshotStatus.ERROR_NAME_CONFLICT, st |-> st]
        ELSE IF check_mode
        THEN [rc |-> ex.rc, st |-> st]
        ELSE LET run == run_lvcreate(st, vg_name, lv_name, snapshot_name, snap_size)
             IN  IF run.rc # 0
                 THEN [rc |-> SnapshotStatus.ERROR_SNAPSHOT_FAILED, st |-> run.st]
                 ELSE [rc |-> SnapshotStatus.SNAPSHOT_OK, st |-> run.st]

RECURSIVE VerifySourcesFrom(_, _, _)
VerifySourcesFrom(w, volume_list, i) ==
    IF i > Len(volume_list)
    THEN SnapshotStatus.SNAPSHOT_OK
    ELSE LET ex == lvm_lv_exists(w, volume_list[i].vg, volume_list[i].lv)
         IN  IF ex.rc # SnapshotStatus.SNAPSHOT_OK
             THEN SnapshotStatus.ERROR_SNAPSET_CHECK_STATUS_FAILED
             ELSE IF ~ex.vg_exists
             THEN SnapshotStatus.ERROR_SNAPSET_SOURCE_DOES_NOT_EXIST
             ELSE IF ~ex.lv_exists
             THEN SnapshotStatus.ERROR_SNAPSET_SOURCE_DOES_NOT_EXIST
             ELSE VerifySourcesFrom(w, volume_list, i + 1)

verify_snapset_source_lvs_exist(w, snapset_json) ==
    VerifySourcesFrom(w, snapset_json.volumes, 1)

RECURSIVE VerifyTargetsFrom(_, _, _, _)
VerifyTargetsFrom(w, snapset_name, volume_list, i) ==
    IF i > Len(volume_list)
    THEN SnapshotStatus.SNAPSHOT_OK
    ELSE LET vg == volume_list[i].vg
             snapshot_name == get_snapshot_name(volume_list[i].lv, snapset_name)
             ex == lvm_lv_exists(w, vg, snapshot_name)
         IN  IF ex.rc # SnapshotStatus.SNAPSHOT_OK
             THEN ex.rc
             ELSE IF ex.lv_exists
             THEN LET is == lvm_is_snapshot(w, vg, snapshot_name)
                  IN  IF IsException(is.rc)
                      THEN is.rc
                      ELSE IF is.rc = SnapshotStatus.SNAPSHOT_OK /\ is.value
                      THEN SnapshotStatus.ERROR_ALREADY_EXISTS
                      ELSE SnapshotStatus.ERROR_SNAPSET_CHECK_STATUS_FAILED
             ELSE VerifyTargetsFrom(w, snapset_name, volume_list, i + 1)

verify_snapset_target_no_existing(w, snapset_json) ==
    VerifyTargetsFrom(w, snapset_json.name, snapset_json.volumes, 1)

RECURSIVE VerifyNamesFrom(_, _, _)
VerifyNamesFrom(snapset_name, volume_list, i) ==
    IF i > Len(volume_list)
    THEN SnapshotStatus.SNAPSHOT_OK
    ELSE LET rc == check_name_for_snapshot(volume_list[i].lv, snapset_name)
         IN  IF rc # SnapshotStatus.SNAPSHOT_OK
             THEN rc
             ELSE VerifyNamesFrom(snapset_name, volume_list, i + 1)

verify_snapset_names(snapset_json) ==
    VerifyNamesFrom(snapset_json.name, snapset_json.volumes, 1)

RECURSIVE TotalSpaceRequested(_, _, _, _)
TotalSpaceRequested(volume_list, i, current_space_dict, total_space_requested) ==
    IF i > Len(volume_list)
    THEN total_space_requested
    ELSE LET vg == volume_list[i].vg
             required_size == get_space_needed(vg, volume_list[i].lv,
                                  volume_list[i].percent_space_required,
                                  current_space_dict)
         IN  TotalSpaceRequested(volume_list, i + 1, current_space_dict,
                 IF vg \in DOMAIN total_space_requested
                 THEN [total_space_requested EXCEPT ![vg] = @ + required_size]
                 ELSE DictPut(total_space_requested, vg, required_size))

RECURSIVE EnoughSpaceFrom(_, _, _, _)
EnoughSpaceFrom(volume_list, i, current_space_dict, total_space_requested) ==
    IF i > Len(volume_list)
    THEN SnapshotStatus.SNAPSHOT_OK
    ELSE IF total_space_requested[volume_list[i].vg]
               > current_space_dict[volume_list[i].vg].vg_free
    THEN SnapshotStatus.ERROR_SNAPSET_INSUFFICIENT_SPACE
    ELSE EnoughSpaceFrom(volume_list, i + 1, current_space_dict, total_space_requested)

\* a lookup of a group or volume that the dictionaries do not hold
SpaceKeysMissing(volume_list, current_space_dict) ==
    \E i \in DOMAIN volume_list :
        \/ volume_list[i].vg \notin DOMAIN current_space_dict
        \/ volume_list[i].lv \notin DOMAIN current_space_dict[volume_list[i].vg].lvs

snapshot_precheck_lv_set_space(w, class_lvs, snapset_json) ==
    LET volume_list == snapset_json.volumes
        state == get_current_space_state(w, class_lvs)
    IN  IF IsException(state.rc)
        THEN [rc |-> state.rc, dict |-> << >>, class_lvs |-> state.class_lvs]
        ELSE IF SpaceKeysMissing(volume_list, state.dict)
        THEN [rc |-> KeyError, dict |-> << >>, class_lvs |-> state.class_lvs]
        ELSE LET total == TotalSpaceRequested(volume_list, 1, state.dict, << >>)
                 rc == EnoughSpaceFrom(volume_list, 1, state.dict, total)
             IN  IF rc # SnapshotStatus.SNAPSHOT_OK
                 THEN [rc |-> rc, dict |-> << >>, class_lvs |-> state.class_lvs]
                 ELSE [rc |-> SnapshotStatus.SNAPSHOT_OK, dict |-> state.dict,
                       class_lvs |-> state.class_lvs]

\* a precheck without the set-wide space check; used to show that C3 rests on it
snapshot_precheck_lv_set_no_space(w, class_lvs, snapset_json) ==
    LET none == [dict |-> << >>, class_lvs |-> class_lvs]
        rc1 == verify_snapset_source_lvs_exist(w, snapset_json)
        rc2 == verify_snapset_target_no_existing(w, snapset_json)
        rc3 == verify_snapset_names(snapset_json)
        state == get_current_space_state(w, class_lvs)
    IN  IF rc1 # SnapshotStatus.SNAPSHOT_OK THEN [rc |-> rc1] @@ none
        ELSE IF rc2 # SnapshotStatus.SNAPSHOT_OK THEN [rc |-> rc2] @@ none
        ELSE IF rc3 # SnapshotStatus.SNAPSHOT_OK THEN [rc |-> rc3] @@ none
        ELSE [rc |-> SnapshotStatus.SNAPSHOT_OK, dict |-> state.dict, class_lvs |-> state.class_lvs]

snapshot_precheck_lv_set(w, class_lvs, snapset_json) ==
    LET none == [dict |-> << >>, class_lvs |-> class_lvs]
        rc1 == verify_snapset_source_lvs_exist(w, snapset_json)
        rc2 == verify_snapset_target_no_existing(w, snapset_json)
        rc3 == verify_snapset_names(snapset_json)
        rc4 == VerifyNamesFrom(snapset_json.name, snapset_json.volumes, 1)
    IN  IF rc1 # SnapshotStatus.SNAPSHOT_OK THEN [rc |-> rc1] @@ none
        ELSE IF rc2 # SnapshotStatus.SNAPSHOT_OK THEN [rc |-> rc2] @@ none
        ELSE IF rc3 # SnapshotStatus.SNAPSHOT_OK THEN [rc |-> rc3] @@ none
        ELSE IF rc4 # SnapshotStatus.SNAPSHOT_OK THEN [rc |-> rc4] @@ none
        ELSE snapshot_precheck_lv_set_space(w, class_lvs, snapset_json)

\* a create loop that goes on to the next member after a failed snapshot_lv;
\* used to show that C11 rests on the early return
RECURSIVE TakeSnapshotsKeepGoing(_, _, _, _, _, _)
TakeSnapshotsKeepGoing(st, snapset_json, i, current_space_dict, check_mode, changed) ==
    IF i > Len(snapset_json.volumes)
    THEN [rc |-> SnapshotStatus.SNAPSHOT_OK, changed |-> changed, st |-> st]
    ELSE LET item == snapset_json.volumes[i]
             required_size == get_space_needed(item.vg, item.lv,
                                  item.percent_space_required, current_space_dict)
             made == snapshot_lv(st, item.vg, item.lv, snapset_json.name,
                         required_size, check_mode)
         IN  TakeSnapshotsKeepGoing(made.st, snapset_json, i + 1, current_space_dict,
                 check_mode, changed \/ made.rc = SnapshotStatus.SNAPSHOT_OK)

RECURSIVE TakeSnapshotsFrom(_, _, _, _, _, _)
TakeSnapshotsFrom(st, snapset_json, i, current_space_dict, check_mode, changed) ==
    IF i > Len(snapset_json.volumes)
    THEN [rc |-> SnapshotStatus.SNAPSHOT_OK, changed |-> changed, st |-> st]
    ELSE LET item == snapset_json.volumes[i]
             required_size == get_space_needed(item.vg, item.lv,
                                  item.percent_space_required, current_space_dict)
             made == snapshot_lv(st, item.vg, item.lv, snapset_json.name,
                         required_size, check_mode)
         IN  IF made.rc # SnapshotStatus.SNAPSHOT_OK
             THEN [rc |-> made.rc, changed |-> changed, st |-> made.st]
             ELSE TakeSnapshotsFrom(made.st, snapset_json, i + 1, current_space_dict,
                      check_mode, TRUE)

\* a create that reports an existing snapshot as the failure ERROR_ALREADY_EXISTS
\* instead of treating it as done; used to show that C1 rests on that mapping
snapshot_create_set_strict(st, snapset_json, check_mode) ==
    LET pre == snapshot_precheck_lv_set(st.w, st.class_lvs, snapset_json)
        st1 == [st EXCEPT !.class_lvs = pre.class_lvs]
    IN  IF pre.rc # SnapshotStatus.SNAPSHOT_OK
        THEN [rc |-> pre.rc, changed |-> FALSE, st |-> st1]
        ELSE TakeSnapshotsFrom(st1, snapset_json, 1, pre.dict, check_mode, FALSE)

snapshot_create_set(st, snapset_json, check_mode) ==
    LET pre == snapshot_precheck_lv_set(st.w, st.class_lvs, snapset_json)
        st1 == [st EXCEPT !.class_lvs = pre.class_lvs]
    IN  IF pre.rc # SnapshotStatus.SNAPSHOT_OK
        THEN [rc |-> IF pre.rc = SnapshotStatus.ERROR_ALREADY_EXISTS THEN SnapshotStatus.SNAPSHOT_OK ELSE pre.rc,
              changed |-> FALSE, st |-> st1]
        ELSE TakeSnapshotsFrom(st1, snapset_json, 1, pre.dict, check_mode, FALSE)

snapshot_set(st, snapset_json, check_mode) ==
    LET rc == verify_snapset_source_lvs_exist(st.w, snapset_json)
    IN  IF rc # SnapshotStatus.SNAPSHOT_OK
        THEN [rc |-> rc, changed |-> FALSE, st |-> st]
        ELSE snapshot_create_set(st, snapset_json, check_mode)

\* Verify that the set has been created
RECURSIVE CheckVerifyFrom(_, _, _, _)
CheckVerifyFrom(w, snapset_name, volume_list, i) ==
    IF i > Len(volume_list)
    THEN SnapshotStatus.SNAPSHOT_OK
    ELSE LET vg == volume_list[i].vg
             snapshot_name == get_snapshot_name(volume_list[i].lv, snapset_name)
             ex == lvm_lv_exists(w, vg, snapshot_name)
         IN  IF ex.rc # SnapshotStatus.SNAPSHOT_OK
             THEN SnapshotStatus.ERROR_VERIFY_COMMAND_FAILED
             ELSE IF ~ex.lv_exists
             THEN SnapshotStatus.ERROR_VERIFY_COMMAND_FAILED
             ELSE LET is == lvm_is_snapshot(w, vg, snapshot_name)
                  IN  IF IsException(is.rc)
                      THEN is.rc
                      ELSE IF is.rc # SnapshotStatus.SNAPSHOT_OK
                      THEN SnapshotStatus.ERROR_VERIFY_COMMAND_FAILED
                      ELSE IF ~is.value
                      THEN SnapshotStatus.ERROR_VERIFY_NOTSNAPSHOT
                      ELSE CheckVerifyFrom(w, snapset_name, volume_list, i + 1)

\* a verification that accepts any volume with the derived name, snapshot or
\* not; used to show that C34 rests on the snapshot test
check_verify_lvs_set_any_volume(w, snapset_json) ==
    LET rc == verify_snapset_source_lvs_exist(w, snapset_json)
    IN  IF rc # SnapshotStatus.SNAPSHOT_OK
        THEN rc
        ELSE IF \A i \in DOMAIN snapset_json.volumes :
                    lvm_lv_exists(w, snapset_json.volumes[i].vg,
                        get_snapshot_name(snapset_json.volumes[i].lv,
                                          snapset_json.name)).lv_exists
        THEN SnapshotStatus.SNAPSHOT_OK
        ELSE SnapshotStatus.ERROR_VERIFY_COMMAND_FAILED

check_verify_lvs_set(w, snapset_json) ==
    LET rc == verify_snapset_source_lvs_exist(w, snapset_json)
    IN  IF rc # SnapshotStatus.SNAPSHOT_OK
        THEN rc
        ELSE CheckVerifyFrom(w, snapset_json.name, snapset_json.volumes, 1)

(***************************************************************************)
(* Remove.                                                                 *)
(***************************************************************************)
\* a removal that runs lvremove whatever check_mode says; used to show that C7
\* rests on the dry-run branch
lvm_snapshot_remove_always(st, vg_name, snapshot_name, check_mode) ==
    LET is == lvm_is_snapshot(st.w, vg_name, snapshot_name)
    IN  IF IsException(is.rc)
        THEN [rc |-> is.rc, st |-> st]
        ELSE IF is.rc # SnapshotStatus.SNAPSHOT_OK
        THEN [rc |-> LvmBug, st |-> st]
        ELSE IF ~is.value
        THEN [rc |-> SnapshotStatus.ERROR_REMOVE_FAILED_NOT_SNAPSHOT, st |-> st]
        ELSE LET run == run_lvremove(st, vg_name, snapshot_name)
             IN  IF run.rc # 0
                 THEN [rc |-> SnapshotStatus.ERROR_REMOVE_FAILED, st |-> run.st]
                 ELSE [rc |-> SnapshotStatus.SNAPSHOT_OK, st |-> run.st]

lvm_snapshot_remove(st, vg_name, snapshot_name, check_mode) ==
    LET is == lvm_is_snapshot(st.w, vg_name, snapshot_name)
    IN  IF IsException(is.rc)
        THEN [rc |-> is.rc, st |-> st]
        ELSE IF is.rc # SnapshotStatus.SNAPSHOT_OK
        THEN [rc |-> LvmBug, st |-> st]
        ELSE IF ~is.value
        THEN [rc |-> SnapshotStatus.ERROR_REMOVE_FAILED_NOT_SNAPSHOT, st |-> st]
        ELSE IF check_mode
        THEN [rc |-> is.rc, st |-> st]
        ELSE LET run == run_lvremove(st, vg_name, snapshot_name)
             IN  IF run.rc # 0
                 THEN [rc |-> SnapshotStatus.ERROR_REMOVE_FAILED, st |-> run.st]
                 ELSE [rc |-> SnapshotStatus.SNAPSHOT_OK, st |-> run.st]

\* check to make sure the set is removable before attempting to remove
RECURSIVE RemovableFrom(_, _, _, _)
RemovableFrom(w, snapset_name, volume_list, i) ==
    IF i > Len(volume_list)
    THEN SnapshotStatus.SNAPSHOT_OK
    ELSE LET vg == volume_list[i].vg
             snapshot_name == get_snapshot_name(volume_list[i].lv, snapset_name)
             ex == lvm_lv_exists(w, vg, snapshot_name)
         IN  IF ex.rc # SnapshotStatus.SNAPSHOT_OK
             THEN ex.rc
             ELSE IF ~ex.vg_exists \/ ~ex.lv_exists
             THEN RemovableFrom(w, snapset_name, volume_list, i + 1)
             ELSE LET used == lvm_is_inuse(w, vg, snapshot_name)
                  IN  IF used.rc # SnapshotStatus.SNAPSHOT_OK
                      THEN used.rc
                      ELSE IF used.value
                      THEN SnapshotStatus.ERROR_REMOVE_FAILED_INUSE
                      ELSE RemovableFrom(w, snapset_name, volume_list, i + 1)

\* a removal loop that stops with OK at the first absent target instead of going
\* on to the next member; used to show that C9 rests on the skip
RECURSIVE RemoveFromUntilAbsent(_, _, _, _, _, _)
RemoveFromUntilAbsent(st, snapset_name, volume_list, i, check_mode, changed) ==
    IF i > Len(volume_list)
    THEN [rc |-> SnapshotStatus.SNAPSHOT_OK, changed |-> changed, st |-> st]
    ELSE LET vg == volume_list[i].vg
             snapshot_name == get_snapshot_name(volume_list[i].lv, snapset_name)
             ex == lvm_lv_exists(st.w, vg, snapshot_name)
         IN  IF ex.rc # SnapshotStatus.SNAPSHOT_OK
             THEN [rc |-> ex.rc, changed |-> changed, st |-> st]
             ELSE IF ~ex.vg_exists \/ ~ex.lv_exists
             THEN [rc |-> SnapshotStatus.SNAPSHOT_OK, changed |-> changed, st |-> st]
             ELSE LET gone == lvm_snapshot_remove(st, vg, snapshot_name, check_mode)
                  IN  IF gone.rc # SnapshotStatus.SNAPSHOT_OK
                      THEN [rc |-> gone.rc, changed |-> changed, st |-> gone.st]
                      ELSE RemoveFromUntilAbsent(gone.st, snapset_name, volume_list,
                               i + 1, check_mode, TRUE)

RECURSIVE RemoveFrom(_, _, _, _, _, _)
RemoveFrom(st, snapset_name, volume_list, i, check_mode, changed) ==
    IF i > Len(volume_list)
    THEN [rc |-> SnapshotStatus.SNAPSHOT_OK, changed |-> changed, st |-> st]
    ELSE LET vg == volume_list[i].vg
             snapshot_name == get_snapshot_name(volume_list[i].lv, snapset_name)
             ex == lvm_lv_exists(st.w, vg, snapshot_name)
         IN  IF ex.rc # SnapshotStatus.SNAPSHOT_OK
             THEN [rc |-> ex.rc, changed |-> changed, st |-> st]
             ELSE IF ~ex.vg_exists \/ ~ex.lv_exists
             THEN RemoveFrom(st, snapset_name, volume_list, i + 1, check_mode, changed)
             ELSE LET gone == lvm_snapshot_remove(st, vg, snapshot_name, check_mode)
                  IN  IF gone.rc # SnapshotStatus.SNAPSHOT_OK
                      THEN [rc |-> gone.rc, changed |-> changed, st |-> gone.st]
                      ELSE RemoveFrom(gone.st, snapset_name, volume_list, i + 1,
                               check_mode, TRUE)

\* a remove without the in-use pass over the set; used to show that C2 rests on it
remove_snapshot_set_no_precheck(st, snapset_json, check_mode) ==
    RemoveFrom(st, snapset_json.name, snapset_json.volumes, 1, check_mode, FALSE)

remove_snapshot_set(st, snapset_json, check_mode) ==
    LET rc == RemovableFrom(st.w, snapset_json.name, snapset_json.volumes, 1)
    IN  IF rc # SnapshotStatus.SNAPSHOT_OK
        THEN [rc |-> rc, changed |-> FALSE, st |-> st]
        ELSE RemoveFrom(st, snapset_json.name, snapset_json.volumes, 1, check_mode, FALSE)

RECURSIVE RemoveVerifyFrom(_, _, _, _)
RemoveVerifyFrom(w, snapset_name, volume_list, i) ==
    IF i > Len(volume_list)
    THEN SnapshotStatus.SNAPSHOT_OK
    ELSE LET ex == lvm_lv_exists(w, volume_list[i].vg,
                       get_snapshot_name(volume_list[i].lv, snapset_name))
         IN  IF ex.rc # SnapshotStatus.SNAPSHOT_OK
             THEN ex.rc
             ELSE IF ex.lv_exists
             THEN SnapshotStatus.ERROR_VERIFY_REMOVE_FAILED
             ELSE RemoveVerifyFrom(w, snapset_name, volume_list, i + 1)

remove_verify_snapshot_set(w, snapset_json) ==
    RemoveVerifyFrom(w, snapset_json.name, snapset_json.volumes, 1)

(***************************************************************************)
(* Revert.                                                                 *)
(***************************************************************************)
revert_lv(st, vg_name, snapshot_name, check_mode) ==
    LET ex == lvm_lv_exists(st.w, vg_name, snapshot_name)
    IN  IF ex.rc # SnapshotStatus.SNAPSHOT_OK
        THEN [rc |-> LvmBug, st |-> st]
        ELSE IF ~ex.lv_exists
        THEN [rc |-> SnapshotStatus.ERROR_LV_NOTFOUND, st |-> st]
        ELSE LET is == lvm_is_snapshot(st.w, vg_name, snapshot_name)
             IN  IF IsException(is.rc)
                 THEN [rc |-> is.rc, st |-> st]
                 ELSE IF is.rc # SnapshotStatus.SNAPSHOT_OK
                 THEN [rc |-> SnapshotStatus.ERROR_VERIFY_COMMAND_FAILED, st |-> st]
                 ELSE IF ~is.value
                 THEN [rc |-> SnapshotStatus.ERROR_REVERT_FAILED, st |-> st]
                 ELSE IF check_mode
                 THEN [rc |-> is.rc, st |-> st]
                 ELSE LET run == run_lvconvert_merge(st, vg_name, snapshot_name)
                      IN  IF run.rc # 0
                          THEN [rc |-> SnapshotStatus.ERROR_REVERT_FAILED, st |-> run.st]
                          ELSE [rc |-> SnapshotStatus.SNAPSHOT_OK, st |-> run.st]

\* a revert loop that passes ERROR_LV_NOTFOUND on to the caller; used to show that
\* C10 rests on the mapping to OK
RECURSIVE RevertFromStrict(_, _, _, _, _, _)
RevertFromStrict(st, snapset_name, volume_list, i, check_mode, changed) ==
    IF i > Len(volume_list)
    THEN [rc |-> SnapshotStatus.SNAPSHOT_OK, changed |-> changed, st |-> st]
    ELSE LET back == revert_lv(st, volume_list[i].vg,
                         get_snapshot_name(volume_list[i].lv, snapset_name), check_mode)
         IN  IF back.rc # SnapshotStatus.SNAPSHOT_OK
             THEN [rc |-> back.rc, changed |-> changed, st |-> back.st]
             ELSE RevertFromStrict(back.st, snapset_name, volume_list, i + 1,
                      check_mode, TRUE)

RECURSIVE RevertFrom(_, _, _, _, _, _)
RevertFrom(st, snapset_name, volume_list, i, check_mode, changed) ==
    IF i > Len(volume_list)
    THEN [rc |-> SnapshotStatus.SNAPSHOT_OK, changed |-> changed, st |-> st]
    ELSE LET back == revert_lv(st, volume_list[i].vg,
                         get_snapshot_name(volume_list[i].lv, snapset_name), check_mode)
         IN  IF back.rc # SnapshotStatus.SNAPSHOT_OK
             THEN [rc |-> IF back.rc = SnapshotStatus.ERROR_LV_NOTFOUND THEN SnapshotStatus.SNAPSHOT_OK ELSE back.rc,
                   changed |-> changed, st |-> back.st]
             ELSE RevertFrom(back.st, snapset_name, volume_list, i + 1, check_mode, TRUE)

revert_snapshot_set(st, snapset_json, check_mode) ==
    RevertFrom(st, snapset_json.name, snapset_json.volumes, 1, check_mode, FALSE)

(***************************************************************************)
(* Extend.                                                                 *)
(***************************************************************************)
extend_lv_snapshot(st, vg_name, lv_name, suffix, percent_space_required, check_mode) ==
    LET snapshot_name == get_snapshot_name(lv_name, suffix)
        Ran(run) ==
            IF run.rc # 0
            THEN [rc |-> SnapshotStatus.ERROR_EXTEND_FAILED, changed |-> FALSE, st |-> run.st]
            ELSE [rc |-> SnapshotStatus.SNAPSHOT_OK, changed |-> TRUE, st |-> run.st]
        Sized(state, st1, current_size, required_size) ==
            IF current_size >= required_size
            THEN [rc |-> SnapshotStatus.SNAPSHOT_OK, changed |-> FALSE, st |-> st1]
            ELSE IF check_mode
            THEN [rc |-> state.rc, changed |-> FALSE, st |-> st1]
            ELSE Ran(run_lvextend(st1, vg_name, snapshot_name, required_size))
        Measured(state, st1) ==
            IF state.rc # SnapshotStatus.SNAPSHOT_OK
            THEN [rc |-> state.rc, changed |-> FALSE, st |-> st1]
            ELSE IF \/ vg_name \notin DOMAIN state.dict
                    \/ snapshot_name \notin DOMAIN state.dict[vg_name].lvs
                    \/ lv_name \notin DOMAIN state.dict[vg_name].lvs
            THEN [rc |-> KeyError, changed |-> FALSE, st |-> st1]
            ELSE Sized(state, st1, state.dict[vg_name].lvs[snapshot_name].lv_size,
                     get_space_needed(vg_name, lv_name, percent_space_required,
                         state.dict))
        Space(state) == Measured(state, [st EXCEPT !.class_lvs = state.class_lvs])
        Probed(ex, is) ==
            IF ~ex.lv_exists
            THEN [rc |-> SnapshotStatus.ERROR_EXTEND_NOT_FOUND, changed |-> FALSE, st |-> st]
            ELSE IF IsException(is.rc)
            THEN [rc |-> is.rc, changed |-> FALSE, st |-> st]
            ELSE IF is.rc # SnapshotStatus.SNAPSHOT_OK
            THEN [rc |-> SnapshotStatus.ERROR_VERIFY_COMMAND_FAILED, changed |-> FALSE, st |-> st]
            ELSE IF ~is.value
            THEN [rc |-> SnapshotStatus.ERROR_EXTEND_NOT_SNAPSHOT, changed |-> FALSE, st |-> st]
            ELSE Space(get_current_space_state(st.w, st.class_lvs))
    IN  Probed(lvm_lv_exists(st.w, vg_name, snapshot_name),
               lvm_is_snapshot(st.w, vg_name, snapshot_name))

\* size_ok is the second member of the returned triple
extend_check_size(st, vg_name, lv_name, snapshot_name, percent_space_required) ==
    LET Measured(state, st1) ==
            IF state.rc # SnapshotStatus.SNAPSHOT_OK
            THEN [rc |-> state.rc, size_ok |-> FALSE, st |-> st1]
            ELSE IF \/ vg_name \notin DOMAIN state.dict
                    \/ snapshot_name \notin DOMAIN state.dict[vg_name].lvs
                    \/ lv_name \notin DOMAIN state.dict[vg_name].lvs
            THEN [rc |-> KeyError, size_ok |-> FALSE, st |-> st1]
            ELSE [rc |-> SnapshotStatus.SNAPSHOT_OK,
                  size_ok |-> state.dict[vg_name].lvs[snapshot_name].lv_size
                                >= get_space_needed(vg_name, lv_name,
                                       percent_space_required, state.dict),
                  st |-> st1]
        Space(state) == Measured(state, [st EXCEPT !.class_lvs = state.class_lvs])
    IN  Space(get_current_space_state(st.w, st.class_lvs))

RECURSIVE ExtendFrom(_, _, _, _, _, _)
ExtendFrom(st, snapset_name, volume_list, i, check_mode, changed) ==
    IF i > Len(volume_list)
    THEN [rc |-> SnapshotStatus.SNAPSHOT_OK, changed |-> changed, st |-> st]
    ELSE LET Grown(grown, now) ==
                 IF grown.rc # SnapshotStatus.SNAPSHOT_OK
                 THEN [rc |-> grown.rc, changed |-> now, st |-> grown.st]
                 ELSE ExtendFrom(grown.st, snapset_name, volume_list, i + 1,
                          check_mode, now)
             Step(grown) == Grown(grown, changed \/ grown.changed)
         IN  Step(extend_lv_snapshot(st, volume_list[i].vg, volume_list[i].lv,
                      snapset_name, volume_list[i].percent_space_required,
                      check_mode))

extend_snapshot_set(st, snapset_json, check_mode) ==
    ExtendFrom(st, snapset_json.name, snapset_json.volumes, 1, check_mode, FALSE)

RECURSIVE ExtendVerifyFrom(_, _, _, _)
ExtendVerifyFrom(st, snapset_name, volume_list, i) ==
    IF i > Len(volume_list)
    THEN [rc |-> SnapshotStatus.SNAPSHOT_OK, st |-> st]
    ELSE LET vg == volume_list[i].vg
             lv == volume_list[i].lv
             snapshot_name == get_snapshot_name(lv, snapset_name)
             Sized(sized) ==
                 IF sized.rc # SnapshotStatus.SNAPSHOT_OK
                 THEN [rc |-> sized.rc, st |-> sized.st]
                 ELSE IF ~sized.size_ok
                 THEN [rc |-> SnapshotStatus.ERROR_EXTEND_VERIFY_FAILED, st |-> sized.st]
                 ELSE ExtendVerifyFrom(sized.st, snapset_name, volume_list, i + 1)
             Probed(ex) ==
                 IF ex.rc # SnapshotStatus.SNAPSHOT_OK
                 THEN [rc |-> ex.rc, st |-> st]
                 ELSE IF ~ex.lv_exists
                 THEN [rc |-> SnapshotStatus.ERROR_EXTEND_VERIFY_FAILED, st |-> st]
                 ELSE Sized(extend_check_size(st, vg, lv, snapshot_name,
                                volume_list[i].percent_space_required))
         IN  Probed(lvm_lv_exists(st.w, vg, snapshot_name))

extend_verify_snapshot_set(st, snapset_json) ==
    ExtendVerifyFrom(st, snapset_json.name, snapset_json.volumes, 1)

(***************************************************************************)
(* Command entry points.  module_args holds ansible_check_mode and         *)
(* snapshot_lvm_verify_only.                                               *)
(***************************************************************************)
snapshot_cmd(st, module_args, snapset_dict) ==
    snapshot_set(st, snapset_dict, module_args.ansible_check_mode)

check_cmd(st, module_args, snapset_dict) ==
    IF module_args.snapshot_lvm_verify_only
    THEN [rc |-> check_verify_lvs_set(st.w, snapset_dict), changed |-> FALSE, st |-> st]
    ELSE LET pre == snapshot_precheck_lv_set(st.w, st.class_lvs, snapset_dict)
         IN  [rc |-> pre.rc, changed |-> FALSE,
              st |-> [st EXCEPT !.class_lvs = pre.class_lvs]]

remove_cmd(st, module_args, snapset_dict) ==
    IF module_args.snapshot_lvm_verify_only
    THEN [rc |-> remove_verify_snapshot_set(st.w, snapset_dict), changed |-> FALSE,
          st |-> st]
    ELSE remove_snapshot_set(st, snapset_dict, module_args.ansible_check_mode)

\* a revert whose verification looks only at the first member of the set;
\* used to show that C28 rests on the use of remove's verification
revert_cmd_verify_first(st, module_args, snapset_dict) ==
    IF module_args.snapshot_lvm_verify_only
    THEN [rc |-> remove_verify_snapshot_set(st.w,
                     [snapset_dict EXCEPT !.volumes = IF @ = << >> THEN @ ELSE <<@[1]>>]),
          changed |-> FALSE, st |-> st]
    ELSE revert_snapshot_set(st, snapset_dict, module_args.ansible_check_mode)

revert_cmd(st, module_args, snapset_dict) ==
    IF module_args.snapshot_lvm_verify_only
    THEN [rc |-> remove_verify_snapshot_set(st.w, snapset_dict), changed |-> FALSE,
          st |-> st]
    ELSE revert_snapshot_set(st, snapset_dict, module_args.ansible_check_mode)

extend_cmd(st, module_args, snapset_dict) ==
    IF module_args.snapshot_lvm_verify_only
    THEN LET Verified(seen) == [rc |-> seen.rc, changed |-> FALSE, st |-> seen.st]
         IN  Verified(extend_verify_snapshot_set(st, snapset_dict))
    ELSE extend_snapshot_set(st, snapset_dict, module_args.ansible_check_mode)

(***************************************************************************)
(* Mounting.  w.mounts is the mount table, a function from mount point to  *)
(* the block device mounted there.  findmnt, given a device or a mount     *)
(* point, prints the records of the table that match either column.        *)
(***************************************************************************)
\* the inventory key of a block device path
DeviceKeys(w, blockdev) ==
    { k \in DOMAIN w.lvs : path_join(DEV_PREFIX, k[1], k[2]) = blockdev }

\* the mount records for block_path; None (findmnt exits non-zero when no
\* record matches) is the empty list here: every caller tests truthiness
lvm_get_fs_mount_points(w, block_path) ==
    { [SOURCE |-> w.mounts[t], TARGET |-> t] :
        t \in { x \in DOMAIN w.mounts : x = block_path \/ w.mounts[x] = block_path } }

verify_source_lvs_exist(w, vg_name, lv_name) ==
    LET ex == lvm_lv_exists(w, vg_name, lv_name)
    IN  IF ex.rc # SnapshotStatus.SNAPSHOT_OK
        THEN SnapshotStatus.ERROR_SNAPSET_CHECK_STATUS_FAILED
        ELSE IF vg_name # "" /\ ~ex.vg_exists
        THEN SnapshotStatus.ERROR_SNAPSET_SOURCE_DOES_NOT_EXIST
        ELSE IF lv_name # "" /\ ~ex.lv_exists
        THEN SnapshotStatus.ERROR_SNAPSET_SOURCE_DOES_NOT_EXIST
        ELSE SnapshotStatus.SNAPSHOT_OK

\* the device-open flag of the volumes behind blockdev follows the table
MountTableSet(w, table) ==
    [w EXCEPT !.mounts = table,
              !.lvs = [k \in DOMAIN w.lvs |->
                         IF \E t \in DOMAIN w.mounts \cup DOMAIN table :
                               k \in DeviceKeys(w, IF t \in DOMAIN table
                                                   THEN table[t] ELSE w.mounts[t])
                         THEN [w.lvs[k] EXCEPT !.open =
                                  \E t \in DOMAIN table : k \in DeviceKeys(w, table[t])]
                         ELSE w.lvs[k]]]

\* Mount Interface: OK, already mounted, or failed
mount(st, blockdev, mountpoint, fstype, options, create, check_mode) ==
    IF mountpoint \in DOMAIN st.w.mounts
    THEN [rc |-> SnapshotStatus.ERROR_MOUNT_POINT_ALREADY_MOUNTED, st |-> st]
    ELSE IF check_mode
    THEN [rc |-> SnapshotStatus.SNAPSHOT_OK, st |-> st]
    ELSE LET Ran(run) ==
                 [rc |-> IF run.rc = 0 THEN SnapshotStatus.SNAPSHOT_OK ELSE SnapshotStatus.ERROR_MOUNT_FAILED,
                  st |-> run.st]
         IN  Ran(RunMutate(st,
                 [cmd |-> "mount", vg |-> blockdev, lv |-> mountpoint, size |-> 0, rc |-> 0],
                 TRUE,
                 MountTableSet(st.w, DictPut(st.w.mounts, mountpoint, blockdev))))

\* Mount Interface: OK, not mounted, or failed
umount(st, umount_target, all_targets, check_mode) ==
    IF umount_target \notin DOMAIN st.w.mounts
    THEN [rc |-> SnapshotStatus.ERROR_UMOUNT_NOT_MOUNTED, st |-> st]
    ELSE IF check_mode
    THEN [rc |-> SnapshotStatus.SNAPSHOT_OK, st |-> st]
    ELSE LET Ran(run) ==
                 [rc |-> IF run.rc = 0 THEN SnapshotStatus.SNAPSHOT_OK ELSE SnapshotStatus.ERROR_UMOUNT_FAILED,
                  st |-> run.st]
         IN  Ran(RunMutate(st,
                 [cmd |-> "umount", vg |-> st.w.mounts[umount_target],
                  lv |-> umount_target, size |-> 0, rc |-> 0],
                 TRUE,
                 MountTableSet(st.w,
                     [t \in (DOMAIN st.w.mounts) \ {umount_target} |-> st.w.mounts[t]])))

\* a verification that is content with a mount of the device anywhere; used
\* to show that C27 rests on the comparison of TARGET with the mount point
mount_verify_any_target(w, origin, mountpoint, blockdev, vg_name, lv_name, snapset_name) ==
    IF mountpoint = ""
    THEN SnapshotStatus.ERROR_MOUNT_INVALID_PARAMS
    ELSE IF vg_name = "" \/ lv_name = ""
    THEN SnapshotStatus.ERROR_MOUNT_INVALID_PARAMS
    ELSE LET lv_to_check == IF origin THEN lv_name
                            ELSE get_snapshot_name(lv_name, snapset_name)
             Listed(mount_list) ==
                 IF mount_list = {}
                 THEN SnapshotStatus.ERROR_MOUNT_VERIFY_FAILED
                 ELSE SnapshotStatus.SNAPSHOT_OK
         IN  IF verify_source_lvs_exist(w, vg_name, lv_to_check) # SnapshotStatus.SNAPSHOT_OK
             THEN verify_source_lvs_exist(w, vg_name, lv_to_check)
             ELSE Listed(lvm_get_fs_mount_points(w,
                             path_join(DEV_PREFIX, vg_name, lv_to_check)))

mount_verify(w, origin, mountpoint, blockdev, vg_name, lv_name, snapset_name) ==
    IF mountpoint = ""
    THEN SnapshotStatus.ERROR_MOUNT_INVALID_PARAMS
    ELSE IF vg_name = "" \/ lv_name = ""
    THEN SnapshotStatus.ERROR_MOUNT_INVALID_PARAMS
    ELSE LET lv_to_check == IF origin THEN lv_name
                            ELSE get_snapshot_name(lv_name, snapset_name)
             Listed(mount_list) ==
                 IF mount_list = {}
                 THEN SnapshotStatus.ERROR_MOUNT_VERIFY_FAILED
                 ELSE IF \E m \in mount_list : m.TARGET = mountpoint
                 THEN SnapshotStatus.SNAPSHOT_OK
                 ELSE SnapshotStatus.ERROR_MOUNT_VERIFY_FAILED
         IN  IF verify_source_lvs_exist(w, vg_name, lv_to_check) # SnapshotStatus.SNAPSHOT_OK
             THEN verify_source_lvs_exist(w, vg_name, lv_to_check)
             ELSE Listed(lvm_get_fs_mount_points(w,
                             path_join(DEV_PREFIX, vg_name, lv_to_check)))

\* mount_lv, were it to report a change for a mount point found mounted
mount_lv_collapse_changed(st, create, origin, mountpoint, fstype, blockdev, options, vg_name, lv_name, snapset_name, check_mode) ==
    IF blockdev = "" /\ (vg_name = "" \/ lv_name = "")
    THEN [rc |-> SnapshotStatus.ERROR_MOUNT_INVALID_PARAMS, changed |-> FALSE, st |-> st]
    ELSE LET lv_to_mount == IF origin THEN lv_name
                            ELSE get_snapshot_name(lv_name, snapset_name)
             Mounted(run) ==
                 [rc |-> IF run.rc = SnapshotStatus.ERROR_MOUNT_POINT_ALREADY_MOUNTED
                         THEN SnapshotStatus.SNAPSHOT_OK ELSE run.rc,
                  changed |-> run.rc \in {SnapshotStatus.SNAPSHOT_OK, SnapshotStatus.ERROR_MOUNT_POINT_ALREADY_MOUNTED},
                  st |-> run.st]
         IN  IF verify_source_lvs_exist(st.w, vg_name, lv_to_mount) # SnapshotStatus.SNAPSHOT_OK
             THEN [rc |-> verify_source_lvs_exist(st.w, vg_name, lv_to_mount),
                   changed |-> FALSE, st |-> st]
             ELSE Mounted(mount(st, path_join(DEV_PREFIX, vg_name, lv_to_mount),
                                mountpoint, fstype, options, create, check_mode))

mount_lv(st, create, origin, mountpoint, fstype, blockdev, options, vg_name, lv_name, snapset_name, check_mode) ==
    IF blockdev = "" /\ (vg_name = "" \/ lv_name = "")
    THEN [rc |-> SnapshotStatus.ERROR_MOUNT_INVALID_PARAMS, changed |-> FALSE, st |-> st]
    ELSE LET lv_to_mount == IF origin THEN lv_name
                            ELSE get_snapshot_name(lv_name, snapset_name)
             Mounted(run) ==
                 [rc |-> IF run.rc = SnapshotStatus.ERROR_MOUNT_POINT_ALREADY_MOUNTED
                         THEN SnapshotStatus.SNAPSHOT_OK ELSE run.rc,
                  changed |-> run.rc = SnapshotStatus.SNAPSHOT_OK,
                  st |-> run.st]
         IN  IF verify_source_lvs_exist(st.w, vg_name, lv_to_mount) # SnapshotStatus.SNAPSHOT_OK
             THEN [rc |-> verify_source_lvs_exist(st.w, vg_name, lv_to_mount),
                   changed |-> FALSE, st |-> st]
             ELSE Mounted(mount(st, path_join(DEV_PREFIX, vg_name, lv_to_mount),
                                mountpoint, fstype, options, create, check_mode))

\* to_bool (lvm_utils) of a flag that is a boolean already
ItemOrigin(list_item) ==
    IF "mount_origin" \in DOMAIN list_item THEN list_item.mount_origin ELSE FALSE

RECURSIVE MountFrom(_, _, _, _, _, _, _, _)
MountFrom(st, snapset_name, volume_list, verify_only, cmdline_mountpoint_create, check_mode, i, changed) ==
    IF i > Len(volume_list)
    THEN [rc |-> SnapshotStatus.SNAPSHOT_OK, changed |-> changed, st |-> st]
    ELSE LET list_item == volume_list[i]
             origin == ItemOrigin(list_item)
             mountpoint_create ==
                 IF ~cmdline_mountpoint_create
                 THEN list_item.mountpoint_create
                 ELSE cmdline_mountpoint_create
             lv_to_check == IF origin THEN list_item.lv
                            ELSE get_snapshot_name(list_item.lv, snapset_name)
             blockdev == path_join(DEV_PREFIX, list_item.vg, lv_to_check)
             Step(r) ==
                 IF r.rc # SnapshotStatus.SNAPSHOT_OK
                 THEN [rc |-> r.rc, changed |-> changed \/ r.changed, st |-> r.st]
                 ELSE MountFrom(r.st, snapset_name, volume_list, verify_only,
                                cmdline_mountpoint_create, check_mode, i + 1,
                                changed \/ r.changed)
         IN  IF "mountpoint" \notin DOMAIN list_item
             THEN [rc |-> SnapshotStatus.ERROR_MOUNT_INVALID_PARAMS, changed |-> changed, st |-> st]
             ELSE IF verify_only
             THEN Step([rc |-> mount_verify(st.w, origin, list_item.mountpoint, blockdev,
                                            list_item.vg, list_item.lv, snapset_name),
                        changed |-> FALSE, st |-> st])
             ELSE Step(mount_lv(st, mountpoint_create, origin, list_item.mountpoint,
                                "", blockdev, "", list_item.vg, list_item.lv,
                                snapset_name, check_mode))

mount_snapshot_set(st, snapset_json, verify_only, cmdline_mountpoint_create, check_mode) ==
    MountFrom(st, snapset_json.name, snapset_json.volumes, verify_only,
              cmdline_mountpoint_create, check_mode, 1, FALSE)

umount_verify(w, mountpoint, vg_name, lv_to_check) ==
    LET blockdev == path_join(DEV_PREFIX, vg_name, lv_to_check)
        mount_list == lvm_get_fs_mount_points(w, mountpoint)
    IN  IF \E m \in mount_list : m.SOURCE = blockdev \/ m.TARGET = mountpoint
        THEN SnapshotStatus.ERROR_MOUNT_VERIFY_FAILED
        ELSE SnapshotStatus.SNAPSHOT_OK

\* an unmount that passes 'not mounted' on as a failure; used to show that
\* C26 rests on the mapping of that answer to SNAPSHOT_OK
umount_lv_not_mounted_fails(st, umount_target, vg_name, lv_name, all_targets, check_mode) ==
    LET Unmounted(run) ==
            [rc |-> run.rc, changed |-> run.rc = SnapshotStatus.SNAPSHOT_OK, st |-> run.st]
    IN  IF /\ vg_name # "" /\ lv_name # ""
           /\ verify_source_lvs_exist(st.w, vg_name, lv_name) # SnapshotStatus.SNAPSHOT_OK
        THEN [rc |-> verify_source_lvs_exist(st.w, vg_name, lv_name),
              changed |-> FALSE, st |-> st]
        ELSE Unmounted(umount(st, umount_target, all_targets, check_mode))

umount_lv(st, umount_target, vg_name, lv_name, all_targets, check_mode) ==
    LET Unmounted(run) ==
            [rc |-> IF run.rc = SnapshotStatus.ERROR_UMOUNT_NOT_MOUNTED THEN SnapshotStatus.SNAPSHOT_OK ELSE run.rc,
             changed |-> run.rc = SnapshotStatus.SNAPSHOT_OK,
             st |-> run.st]
    IN  IF /\ vg_name # "" /\ lv_name # ""
           /\ verify_source_lvs_exist(st.w, vg_name, lv_name) # SnapshotStatus.SNAPSHOT_OK
        THEN [rc |-> verify_source_lvs_exist(st.w, vg_name, lv_name),
              changed |-> FALSE, st |-> st]
        ELSE Unmounted(umount(st, umount_target, all_targets, check_mode))

RECURSIVE UmountFrom(_, _, _, _, _, _, _)
UmountFrom(st, snapset_name, volume_list, verify_only, check_mode, i, changed) ==
    IF i > Len(volume_list)
    THEN [rc |-> SnapshotStatus.SNAPSHOT_OK, changed |-> changed, st |-> st]
    ELSE LET list_item == volume_list[i]
             all_targets == IF "all_targets" \in DOMAIN list_item
                            THEN list_item.all_targets ELSE FALSE
             lv_to_check == IF ItemOrigin(list_item) THEN list_item.lv
                            ELSE IF list_item.lv # "" /\ snapset_name # ""
                            THEN get_snapshot_name(list_item.lv, snapset_name)
                            ELSE ""
             Step(r) ==
                 IF r.rc # SnapshotStatus.SNAPSHOT_OK
                 THEN [rc |-> r.rc, changed |-> changed \/ r.changed, st |-> r.st]
                 ELSE UmountFrom(r.st, snapset_name, volume_list, verify_only,
                                 check_mode, i + 1, changed \/ r.changed)
         IN  IF verify_only
             THEN Step([rc |-> umount_verify(st.w, list_item.mountpoint,
                                             list_item.vg, lv_to_check),
                        changed |-> FALSE, st |-> st])
             ELSE Step(umount_lv(st, list_item.mountpoint, list_item.vg, lv_to_check,
                                 all_targets, check_mode))

umount_snapshot_set(st, snapset_json, verify_only, check_mode) ==
    UmountFrom(st, snapset_json.name, snapset_json.volumes, verify_only, check_mode,
               1, FALSE)

mount_cmd(st, module_args, snapset_dict) ==
    mount_snapshot_set(st, snapset_dict, module_args.snapshot_lvm_verify_only,
                       module_args.snapshot_lvm_mountpoint_create,
                       module_args.ansible_check_mode)

umount_cmd(st, module_args, snapset_dict) ==
    umount_snapshot_set(st, snapset_dict, module_args.snapshot_lvm_verify_only,
                        module_args.ansible_check_mode)

(***************************************************************************)
(* The volume list of a command, assembled from the module arguments and   *)
(* the inventory (utils.py), and the list operation.  The command names    *)
(* are the members of SnapshotCommand (module consts), by name.            *)
(***************************************************************************)
get_command_const(command) ==
    IF command \in {"snapshot", "check", "remove", "revert", "extend", "list",
                    "mount", "umount"}
    THEN command
    ELSE "invalid"

\* a test that holds only of the whole name; used to show that C37 rests on
\* the test of the end of the name
endswith_whole(str, suffix) == str = suffix

\* str.endswith(suffix) for two strings
endswith(str, suffix) ==
    /\ Len(suffix) <= Len(str)
    /\ SubSeq(str, Len(str) - Len(suffix) + 1, Len(str)) = suffix

\* the volume dictionary appended for vg_str/lv_name
GetJsonVolume(module_args, cmd, vg_str, lv_name) ==
    LET volume == [name |-> <<"snapshot : " \o vg_str \o "/" \o lv_name>>,
                   vg |-> vg_str,
                   lv |-> lv_name,
                   percent_space_required |->
                       module_args.snapshot_lvm_percent_space_required]
    IN  IF cmd = "mount"
        THEN volume @@ [mountpoint_create |-> module_args.snapshot_lvm_mountpoint_create,
                        mountpoint |-> module_args.snapshot_lvm_mountpoint,
                        mount_origin |-> module_args.snapshot_lvm_mount_origin,
                        fstype |-> module_args.snapshot_lvm_fstype,
                        options |-> module_args.snapshot_lvm_mount_options]
        ELSE IF cmd = "umount"
        THEN volume @@ [mountpoint |-> module_args.snapshot_lvm_mountpoint,
                        all_targets |-> module_args.snapshot_lvm_unmount_all]
        ELSE volume

\* the inner loop over the volumes of one group; lv_name.endswith(None)
\* raises TypeError
RECURSIVE GetJsonLvs(_, _, _, _, _, _, _)
GetJsonLvs(w, module_args, cmd, vg_str, lv_list, i, volume_list) ==
    IF i > Len(lv_list)
    THEN [rc |-> SnapshotStatus.SNAPSHOT_OK, volumes |-> volume_list]
    ELSE LET lv_name == lv_list[i].lv_name
             Skip == GetJsonLvs(w, module_args, cmd, vg_str, lv_list, i + 1, volume_list)
             Thin(is) ==
                 IF IsException(is.rc)
                 THEN [rc |-> is.rc, volumes |-> volume_list]
                 ELSE IF is.rc # SnapshotStatus.SNAPSHOT_OK
                 THEN [rc |-> SnapshotStatus.ERROR_VERIFY_COMMAND_FAILED,
                       volumes |-> volume_list]
                 ELSE IF is.value
                 THEN Skip
                 ELSE GetJsonLvs(w, module_args, cmd, vg_str, lv_list, i + 1,
                          Append(volume_list,
                                 GetJsonVolume(module_args, cmd, vg_str, lv_name)))
             Snap(is) ==
                 IF IsException(is.rc)
                 THEN [rc |-> is.rc, volumes |-> volume_list]
                 ELSE IF is.rc # SnapshotStatus.SNAPSHOT_OK
                 THEN [rc |-> SnapshotStatus.ERROR_VERIFY_COMMAND_FAILED,
                       volumes |-> volume_list]
                 ELSE IF is.value
                 THEN Skip
                 ELSE Thin(lvm_is_thinpool(w, vg_str, lv_name))
         IN  IF module_args.snapshot_lvm_snapset_name = None
             THEN [rc |-> TypeError, volumes |-> volume_list]
             ELSE IF endswith(lv_name, module_args.snapshot_lvm_snapset_name)
             THEN Skip
             ELSE Snap(lvm_is_snapshot(w, vg_str, lv_name))

\* the outer loop over the groups that vgs_lvs_iterator yields
RECURSIVE GetJsonVgs(_, _, _, _, _, _)
GetJsonVgs(w, module_args, cmd, items, i, volume_list) ==
    IF i > Len(items)
    THEN [rc |-> SnapshotStatus.SNAPSHOT_OK, volumes |-> volume_list]
    ELSE LET Next1(found) ==
                 IF found.rc # SnapshotStatus.SNAPSHOT_OK
                 THEN found
                 ELSE GetJsonVgs(w, module_args, cmd, items, i + 1, found.volumes)
         IN  Next1(GetJsonLvs(w, module_args, cmd, items[i].vg.vg_name, items[i].lvs,
                       1, volume_list))

\* args_dict is "" or None when the status is not SNAPSHOT_OK; the key
\* 'name' is set only for a snapshot-set name that is not empty
get_json_from_args(w, module_args, vg_include) ==
    LET cmd == get_command_const(module_args.snapshot_lvm_action)
        name == module_args.snapshot_lvm_snapset_name
        Assembled(found) ==
            IF IsException(found.rc)
            THEN [rc |-> found.rc, args_dict |-> None]
            ELSE IF found.rc # SnapshotStatus.SNAPSHOT_OK
            THEN [rc |-> found.rc, args_dict |-> None]
            ELSE [rc |-> SnapshotStatus.SNAPSHOT_OK,
                  args_dict |-> IF name # None /\ name # ""
                                THEN [name |-> name, volumes |-> found.volumes]
                                ELSE [volumes |-> found.volumes]]
        Verified(rc) ==
            IF rc # SnapshotStatus.SNAPSHOT_OK
            THEN [rc |-> rc, args_dict |-> ""]
            ELSE IF lvm_full_report_json(w).raised
            THEN [rc |-> LvmBug, args_dict |-> None]
            ELSE Assembled(GetJsonVgs(w, module_args, cmd,
                     vgs_lvs_iterator(w, module_args.snapshot_lvm_vg,
                         module_args.snapshot_lvm_lv, vg_include, FALSE),
                     1, << >>))
    IN  IF ~module_args.snapshot_lvm_all_vgs /\ cmd # "umount"
        THEN Verified(verify_source_lvs_exist(w, module_args.snapshot_lvm_vg,
                          module_args.snapshot_lvm_lv))
        ELSE Verified(SnapshotStatus.SNAPSHOT_OK)

\* a dictionary that keeps the groups with no matching volume; used to show
\* that C38 rests on omit_empty_lvs
vgs_lvs_dict_keep_empty(w, vg_name, lv_name, vg_include) ==
    LET Dict(items) ==
            [v \in { items[i].vg.vg_name : i \in DOMAIN items } |->
                LET k == CHOOSE i \in DOMAIN items :
                             /\ items[i].vg.vg_name = v
                             /\ \A j \in DOMAIN items : items[j].vg.vg_name = v => j <= i
                IN  items[k].lvs]
    IN  Dict(vgs_lvs_iterator(w, vg_name, lv_name, vg_include, FALSE))

\* dict() of the (vg_name, lvs) pairs: a later pair replaces an earlier one
\* of the same name
vgs_lvs_dict(w, vg_name, lv_name, vg_include) ==
    LET Dict(items) ==
            [v \in { items[i].vg.vg_name : i \in DOMAIN items } |->
                LET k == CHOOSE i \in DOMAIN items :
                             /\ items[i].vg.vg_name = v
                             /\ \A j \in DOMAIN items : items[j].vg.vg_name = v => j <= i
                IN  items[k].lvs]
    IN  Dict(vgs_lvs_iterator(w, vg_name, lv_name, vg_include, TRUE))

lvm_list_json(w, vg_name, lv_name, vg_include) ==
    LET Listed(vg_dict) ==
            [rc |-> SnapshotStatus.SNAPSHOT_OK,
             top_level |->
                [volumes |-> vg_dict,
                 mounts |-> [block_path \in
                                UNION { { vg_dict[v][i].lv_path : i \in DOMAIN vg_dict[v] } :
                                        v \in DOMAIN vg_dict }
                             |-> lvm_get_fs_mount_points(w, block_path)]]]
    IN  IF lvm_full_report_json(w).raised
        THEN [rc |-> LvmBug, top_level |-> None]
        ELSE Listed(vgs_lvs_dict(w, vg_name, lv_name, vg_include))

list_cmd(w, module_args, vg_include) ==
    LET Result(listed) ==
            [return_code |-> listed.rc, errors |-> "", data |-> listed.top_level,
             changed |-> FALSE]
    IN  Result(lvm_list_json(w, module_args.snapshot_lvm_vg,
                   module_args.snapshot_lvm_lv, vg_include))

(***************************************************************************)
(* The state machine.  vgs and lvs are the volume manager's inventory and  *)
(* mounts the mount table;                                                 *)
(* last is the result record of the command that has just run, with its    *)
(* arguments, the inventory it started from (pre) and the mutating         *)
(* commands it ran.  One module invocation runs one command, prints the    *)
(* result and exits (ResultReturned); the next invocation starts after.    *)
(***************************************************************************)
VARIABLES vgs, lvs, mounts, last

vars == <<vgs, lvs, mounts, last>>

\* the volume manager answers every query of a command: lvs does not fail
\* (fault = 0), the full report is produced and decoded (report_fault =
\* "none") and a fully-qualified lookup prints one record (lvs_output = "ok")
World ==
    [vgs |-> vgs, lvs |-> lvs, mounts |-> mounts, fault |-> 0,
     report_fault |-> "none", lvs_output |-> "ok"]

\* the <<vg, lv>> pairs a set may name: vg2/b names a volume and vg3/a a
\* volume group that the inventory never holds
Members == {<<"vg1", "a">>, <<"vg1", "b">>, <<"vg2", "a">>, <<"vg2", "b">>, <<"vg3", "a">>}

\* the volume lists of a snapshot set: each member named once, every member
\* with the percentage the module was called with (utils.get_json_from_args)
VolumeLists(percent) ==
    UNION { { [i \in 1..n |-> [vg |-> m[i][1], lv |-> m[i][2],
                               percent_space_required |-> percent]] :
              m \in { x \in [1..n -> Members] :
                        \A i, j \in 1..n : i # j => x[i] # x[j] } } :
            n \in 0..MaxVolumes }

Snapsets ==
    { [name |-> nm, volumes |-> vl] :
        nm \in SnapsetNames, vl \in UNION { VolumeLists(p) : p \in Percents } }

\* the derived snapshot names of the universe
DerivedNames == { get_snapshot_name(lv, nm) : lv \in LVNames, nm \in SnapsetNames }

\* names that an administrator may give to an ordinary volume
ConflictNames == { <<"vg1", get_snapshot_name("b", "s")>> }

\* the sizes of such a volume: less than, and more than, any snapshot that
\* the set asks for vg1/b
ConflictSizes == {100, 1300}

NoCall(w) ==
    [op |-> "none", name |-> "", volumes |-> << >>, check_mode |-> FALSE,
     verify_only |-> FALSE, failAt |-> 0, rc |-> SnapshotStatus.SNAPSHOT_OK, changed |-> FALSE,
     cmds |-> << >>, pre |-> w]

StartRun(failAt) ==
    [w |-> World, cmds |-> << >>, failAt |-> failAt, class_lvs |-> << >>]

\* the positions at which a mutating command may be failed
FailChoices(module_args) ==
    IF module_args.ansible_check_mode THEN {0} ELSE 0..MaxVolumes

Idle == last.op = "none"

ModuleArgs == [ansible_check_mode : BOOLEAN, snapshot_lvm_verify_only : BOOLEAN]

\* failAt names a command that was run (or none): a position that the run
\* never reached is the same run as failAt = 0
Finish(op, module_args, snapset_dict, failAt, out) ==
    /\ \E r \in {out} :
          /\ failAt <= Len(r.st.cmds)
          /\ vgs' = r.st.w.vgs
          /\ lvs' = r.st.w.lvs
          /\ mounts' = r.st.w.mounts
          /\ last' = [op |-> op, name |-> snapset_dict.name,
                      volumes |-> snapset_dict.volumes,
                      check_mode |-> module_args.ansible_check_mode,
                      verify_only |-> module_args.snapshot_lvm_verify_only,
                      failAt |-> failAt, rc |-> r.rc, changed |-> r.changed,
                      cmds |-> r.st.cmds, pre |-> World]

Init ==
    /\ \E free1 \in {1000, 8000} :
          vgs = [v \in {"vg1", "vg2"} |->
                   IF v = "vg1"
                   THEN [vg_size |-> 16000, vg_free |-> free1, vg_extent_size |-> 4]
                   ELSE [vg_size |-> 2000, vg_free |-> 560, vg_extent_size |-> 4]]
    /\ lvs = [k \in {<<"vg1", "a">>, <<"vg1", "b">>, <<"vg2", "a">>} |->
                [kind |-> "plain", open |-> FALSE,
                 lv_size |-> IF k = <<"vg1", "a">> THEN 5000
                             ELSE IF k = <<"vg1", "b">> THEN 2000 ELSE 1000]]
    /\ mounts = << >>
    /\ last = NoCall(World)

SnapshotCmd ==
    /\ Idle
    /\ \E module_args \in ModuleArgs, snapset_dict \in Snapsets :
        \E failAt \in FailChoices(module_args) :
            Finish("snapshot", module_args, snapset_dict, failAt,
                   snapshot_cmd(StartRun(failAt), module_args, snapset_dict))

CheckCmd ==
    /\ Idle
    /\ \E module_args \in ModuleArgs, snapset_dict \in Snapsets :
        Finish("check", module_args, snapset_dict, 0,
               check_cmd(StartRun(0), module_args, snapset_dict))

RemoveCmd ==
    /\ Idle
    /\ \E module_args \in ModuleArgs, snapset_dict \in Snapsets :
        \E failAt \in FailChoices(module_args) :
            /\ module_args.snapshot_lvm_verify_only => failAt = 0
            /\ Finish("remove", module_args, snapset_dict, failAt,
                      remove_cmd(StartRun(failAt), module_args, snapset_dict))

RevertCmd ==
    /\ Idle
    /\ \E module_args \in ModuleArgs, snapset_dict \in Snapsets :
        \E failAt \in FailChoices(module_args) :
            /\ module_args.snapshot_lvm_verify_only => failAt = 0
            /\ Finish("revert", module_args, snapset_dict, failAt,
                      revert_cmd(StartRun(failAt), module_args, snapset_dict))

ExtendCmd ==
    /\ Idle
    /\ \E module_args \in ModuleArgs, snapset_dict \in Snapsets :
        \E failAt \in FailChoices(module_args) :
            /\ module_args.snapshot_lvm_verify_only => failAt = 0
            /\ Finish("extend", module_args, snapset_dict, failAt,
                      extend_cmd(StartRun(failAt), module_args, snapset_dict))

\* the snapshot sets given to mount and umount: every member is mounted at
\* the mount point named after its logical volume, so that vg1/a and vg2/a
\* ask for the same mount point
MountPointOf(lv_name) == "/mnt/" \o lv_name

MountSets ==
    { [name |-> ss.name,
       volumes |-> [i \in DOMAIN ss.volumes |->
                      [vg |-> ss.volumes[i].vg, lv |-> ss.volumes[i].lv,
                       percent_space_required |-> ss.volumes[i].percent_space_required,
                       mountpoint |-> MountPointOf(ss.volumes[i].lv),
                       mountpoint_create |-> FALSE,
                       mount_origin |-> origin]]] :
        ss \in { x \in Snapsets :
                   \A i \in DOMAIN x.volumes :
                      x.volumes[i].percent_space_required = MountPercent },
        origin \in MountOrigins }

MountArgs ==
    [ansible_check_mode : BOOLEAN, snapshot_lvm_verify_only : BOOLEAN,
     snapshot_lvm_mountpoint_create : {FALSE}]

MountCmd ==
    /\ Idle
    /\ \E module_args \in MountArgs, snapset_dict \in MountSets :
        \E failAt \in FailChoices(module_args) :
            /\ module_args.snapshot_lvm_verify_only => failAt = 0
            /\ Finish("mount", module_args, snapset_dict, failAt,
                      mount_cmd(StartRun(failAt), module_args, snapset_dict))

UmountCmd ==
    /\ Idle
    /\ \E module_args \in MountArgs, snapset_dict \in MountSets :
        \E failAt \in FailChoices(module_args) :
            /\ module_args.snapshot_lvm_verify_only => failAt = 0
            /\ Finish("umount", module_args, snapset_dict, failAt,
                      umount_cmd(StartRun(failAt), module_args, snapset_dict))

\* somebody opens or closes a volume that carries a derived name
EnvOpen ==
    /\ Idle
    /\ \E k \in DOMAIN lvs :
        /\ k[2] \in DerivedNames
        /\ \A t \in DOMAIN mounts : k \notin DeviceKeys(World, mounts[t])
        /\ lvs' = [lvs EXCEPT ![k].open = ~@]
        /\ vgs' = vgs
        /\ mounts' = mounts
        /\ last' = NoCall([vgs |-> vgs', lvs |-> lvs', mounts |-> mounts', fault |-> 0,
                          report_fault |-> "none", lvs_output |-> "ok"])

\* an administrator creates an ordinary volume whose name is a derived name
EnvCreateLV ==
    /\ Idle
    /\ \E k \in ConflictNames, size \in ConflictSizes :
        /\ k \notin DOMAIN lvs
        /\ k[1] \in DOMAIN vgs
        /\ vgs[k[1]].vg_free >= size
        /\ lvs' = DictPut(lvs, k, [kind |-> "plain", open |-> FALSE, lv_size |-> size])
        /\ vgs' = [vgs EXCEPT ![k[1]].vg_free = @ - size]
        /\ mounts' = mounts
        /\ last' = NoCall([vgs |-> vgs', lvs |-> lvs', mounts |-> mounts', fault |-> 0,
                          report_fault |-> "none", lvs_output |-> "ok"])

\* the module prints its result and exits
ResultReturned ==
    /\ ~Idle
    /\ last' = NoCall(World)
    /\ UNCHANGED <<vgs, lvs, mounts>>

Next ==
    \/ SnapshotCmd
    \/ CheckCmd
    \/ RemoveCmd
    \/ RevertCmd
    \/ ExtendCmd
    \/ EnvOpen
    \/ EnvCreateLV
    \/ ResultReturned

Spec == Init /\ [][Next]_vars

\* the six mutating operation kinds, mount and umount included, on an
\* inventory that nobody else touches
NextMount ==
    \/ SnapshotCmd
    \/ RemoveCmd
    \/ RevertCmd
    \/ ExtendCmd
    \/ MountCmd
    \/ UmountCmd
    \/ ResultReturned

MountSpec == Init /\ [][NextMount]_vars

(***************************************************************************)
(* get_snapshot_size_required on its own.  The arguments are drawn from    *)
(* bounded sets (sizes in MiB) and SizeCall applies the function to them;  *)
(* last holds the call: its arguments and, once made, its result.  The     *)
(* extent sizes include 3 MiB, which does not divide 512 MiB, and 1024 MiB,*)
(* which exceeds it.                                                       *)
(***************************************************************************)
SourceSizes == {100, 1000, 2561, 5000, 10240, 20000}
RequiredPercents == {2, 20, 60, 100}
ExtentSizes == {1, 3, 4, 1024}

SizeInit ==
    /\ vgs = << >>
    /\ lvs = << >>
    /\ mounts = << >>
    /\ \E lv_size \in SourceSizes, required_percent \in RequiredPercents,
          extent_size \in ExtentSizes :
          last = [op |-> "args", lv_size |-> lv_size,
                  required_percent |-> required_percent,
                  extent_size |-> extent_size, result |-> 0]

SizeCall ==
    /\ last.op = "args"
    /\ last' = [last EXCEPT
                  !.op = "get_snapshot_size_required",
                  !.result = get_snapshot_size_required(last.lv_size,
                                 last.required_percent, last.extent_size)]
    /\ UNCHANGED <<vgs, lvs, mounts>>

SizeSpec == SizeInit /\ [][SizeCall]_vars

(***************************************************************************)
(* The inventory probes on their own.  The inventory holds the volumes of  *)
(* Init and the snapshot vg1/a_s, open or not; a probe is called for a     *)
(* group and a volume name while lvs answers (tool_rc = 0) or fails with   *)
(* exit code tool_rc, and prints lvs_output for a volume it finds.  last   *)
(* holds the call and, once made, what the probe                           *)
(* returned: rc (a status, or the exception raised) and the boolean value  *)
(* (lv_exists for lvm_lv_exists, whose vg_exists is kept too).             *)
(***************************************************************************)
Probes == {"lvm_lv_exists", "lvm_is_snapshot", "lvm_is_thinpool", "lvm_is_inuse"}

\* exit codes of lvs other than 0 (found) and 5 (not found); 0: lvs answers
LvsFaults == {0, 1, 3}

\* what 'lvs --reportformat json vg/lv' prints for a volume it finds
LvsOutputs == {"ok", "two_reports", "two_lvs", "garbage"}

ProbeInit ==
    /\ vgs = [v \in {"vg1", "vg2"} |->
                IF v = "vg1"
                THEN [vg_size |-> 16000, vg_free |-> 7000, vg_extent_size |-> 4]
                ELSE [vg_size |-> 2000, vg_free |-> 560, vg_extent_size |-> 4]]
    /\ \E open \in BOOLEAN :
          lvs = [k \in {<<"vg1", "a">>, <<"vg1", "b">>, <<"vg2", "a">>,
                        <<"vg1", get_snapshot_name("a", "s")>>} |->
                   IF k[2] \in LVNames
                   THEN [kind |-> "plain", open |-> FALSE,
                         lv_size |-> IF k = <<"vg1", "a">> THEN 5000
                                     ELSE IF k = <<"vg1", "b">> THEN 2000 ELSE 1000]
                   ELSE [kind |-> "snapshot", open |-> open, lv_size |-> 1000]]
    /\ mounts = << >>
    /\ \E probe \in Probes, vg_name \in VGNames, lv_name \in LVNames \cup DerivedNames,
          tool_rc \in LvsFaults, lvs_output \in LvsOutputs :
          last = [op |-> "args", probe |-> probe, vg_name |-> vg_name,
                  lv_name |-> lv_name, tool_rc |-> tool_rc, lvs_output |-> lvs_output,
                  rc |-> "", value |-> FALSE, vg_exists |-> FALSE]

ProbeResult(probe, w, vg_name, lv_name) ==
    CASE probe = "lvm_lv_exists" ->
            LET Seen(ex) == [rc |-> ex.rc, value |-> ex.lv_exists,
                             vg_exists |-> ex.vg_exists]
            IN  Seen(lvm_lv_exists(w, vg_name, lv_name))
      [] probe = "lvm_is_snapshot" ->
            LET Seen(is) == [rc |-> is.rc, value |-> is.value, vg_exists |-> FALSE]
            IN  Seen(lvm_is_snapshot(w, vg_name, lv_name))
      [] probe = "lvm_is_thinpool" ->
            LET Seen(is) == [rc |-> is.rc, value |-> is.value, vg_exists |-> FALSE]
            IN  Seen(lvm_is_thinpool(w, vg_name, lv_name))
      [] probe = "lvm_is_inuse" ->
            LET Seen(is) == [rc |-> is.rc, value |-> is.value, vg_exists |-> FALSE]
            IN  Seen(lvm_is_inuse(w, vg_name, lv_name))

ProbeCall ==
    /\ last.op = "args"
    /\ \E r \in {ProbeResult(last.probe,
                       [World EXCEPT !.fault = last.tool_rc,
                                     !.lvs_output = last.lvs_output],
                       last.vg_name, last.lv_name)} :
          last' = [last EXCEPT !.op = "probe", !.rc = r.rc, !.value = r.value,
                               !.vg_exists = r.vg_exists]
    /\ UNCHANGED <<vgs, lvs, mounts>>

ProbeSpec == ProbeInit /\ [][ProbeCall]_vars

(***************************************************************************)
(* Commands run while an external tool misbehaves.  FaultyCmd runs one set *)
(* operation on an inventory whose lvs, or whose 'lvm fullreport', fails   *)
(* for the whole of the command; last.pre keeps the inventory with the     *)
(* failure, so that a property can tell which tool failed and how.         *)
(* SnapshotCmd and RemoveCmd, run without failures, make the inventories.  *)
(***************************************************************************)
ToolFaults == {"lvs_exit", "lvs_garbage", "report_exit", "report_decode"}

\* the inventory w as the tools show it under the failure tool
Faulty(w, tool) ==
    CASE tool = "lvs_exit" -> [w EXCEPT !.fault = 1]
      [] tool = "lvs_garbage" -> [w EXCEPT !.lvs_output = "garbage"]
      [] tool = "report_exit" -> [w EXCEPT !.report_fault = "exit"]
      [] tool = "report_decode" -> [w EXCEPT !.report_fault = "decode"]

FaultOps == {"snapshot", "check", "remove", "revert", "extend"}

RunCmd(op, st, module_args, snapset_dict) ==
    CASE op = "snapshot" -> snapshot_cmd(st, module_args, snapset_dict)
      [] op = "check" -> check_cmd(st, module_args, snapset_dict)
      [] op = "remove" -> remove_cmd(st, module_args, snapset_dict)
      [] op = "revert" -> revert_cmd(st, module_args, snapset_dict)
      [] op = "extend" -> extend_cmd(st, module_args, snapset_dict)

FaultyCmd ==
    /\ Idle
    /\ \E op \in FaultOps, module_args \in ModuleArgs, snapset_dict \in Snapsets,
          tool \in ToolFaults :
          \E r \in {RunCmd(op, [StartRun(0) EXCEPT !.w = Faulty(World, tool)],
                            module_args, snapset_dict)} :
              /\ vgs' = r.st.w.vgs
              /\ lvs' = r.st.w.lvs
              /\ mounts' = r.st.w.mounts
              /\ last' = [op |-> op, name |-> snapset_dict.name,
                          volumes |-> snapset_dict.volumes,
                          check_mode |-> module_args.ansible_check_mode,
                          verify_only |-> module_args.snapshot_lvm_verify_only,
                          failAt |-> 0, rc |-> r.rc, changed |-> r.changed,
                          cmds |-> r.st.cmds, pre |-> Faulty(World, tool)]

NextFault ==
    \/ SnapshotCmd
    \/ RemoveCmd
    \/ FaultyCmd
    \/ ResultReturned

FaultSpec == Init /\ [][NextFault]_vars

(***************************************************************************)
(* Names of every length.  NameInit draws either the arguments of one call *)
(* of check_name_for_snapshot (a volume name and a suffix: a string, the   *)
(* empty string or None) or the arguments of one create for a set whose    *)
(* name is such a suffix.  The inventory of a create holds vg1/a and the   *)
(* long-named volume vg1/LongLv, and may already hold the snapshot of      *)
(* vg1/a for the set name that is too long for vg1/LongLv only.            *)
(***************************************************************************)
RECURSIVE NameOfLength(_)
NameOfLength(n) ==
    IF n = 0 THEN ""
    ELSE IF n % 2 = 0 THEN NameOfLength(n \div 2) \o NameOfLength(n \div 2)
    ELSE "x" \o NameOfLength(n - 1)

NameLengths == {1, 2, 64, 120, 126, 127, 128, 129}

SuffixLengths == {0, 1, 6, 7, 8, 125, 126, 127}

Suffixes == { NameOfLength(n) : n \in SuffixLengths } \cup {None}

LongLv == NameOfLength(120)

NameMembers == {<<"vg1", "a">>, <<"vg1", LongLv>>, <<"vg3", "a">>}

NameVolumeLists ==
    UNION { { [i \in 1..n |-> [vg |-> m[i][1], lv |-> m[i][2],
                               percent_space_required |-> MountPercent]] :
              m \in { x \in [1..n -> NameMembers] :
                        \A i, j \in 1..n : i # j => x[i] # x[j] } } :
            n \in 1..MaxVolumes }

NameInit ==
    /\ vgs = [v \in {"vg1", "vg2"} |->
                IF v = "vg1"
                THEN [vg_size |-> 16000, vg_free |-> 7000, vg_extent_size |-> 4]
                ELSE [vg_size |-> 2000, vg_free |-> 560, vg_extent_size |-> 4]]
    /\ \E held \in SUBSET {<<"vg1", get_snapshot_name("a", NameOfLength(8))>>} :
          lvs = [k \in {<<"vg1", "a">>, <<"vg1", LongLv>>, <<"vg2", "a">>} \cup held |->
                   IF k \in held
                   THEN [kind |-> "snapshot", open |-> FALSE, lv_size |-> 1000]
                   ELSE [kind |-> "plain", open |-> FALSE,
                         lv_size |-> IF k = <<"vg1", "a">> THEN 5000 ELSE 1000]]
    /\ mounts = << >>
    /\ \/ \E n \in NameLengths, suffix \in Suffixes :
             last = [op |-> "args", lv_name |-> NameOfLength(n), name |-> suffix,
                     volumes |-> << >>, check_mode |-> FALSE, rc |-> "",
                     changed |-> FALSE, cmds |-> << >>]
       \/ \E suffix \in Suffixes, volume_list \in NameVolumeLists,
             check_mode \in BOOLEAN :
             last = [op |-> "args", lv_name |-> "", name |-> suffix,
                     volumes |-> volume_list, check_mode |-> check_mode, rc |-> "",
                     changed |-> FALSE, cmds |-> << >>]

NameCall ==
    /\ last.op = "args"
    /\ last.volumes = << >>
    /\ last' = [last EXCEPT !.op = "check_name_for_snapshot",
                            !.rc = check_name_for_snapshot(last.lv_name, last.name)]
    /\ UNCHANGED <<vgs, lvs, mounts>>

NameCreate ==
    /\ last.op = "args"
    /\ last.volumes # << >>
    /\ \E r \in {snapshot_cmd(StartRun(0),
                      [ansible_check_mode |-> last.check_mode,
                       snapshot_lvm_verify_only |-> FALSE],
                      [name |-> last.name, volumes |-> last.volumes])} :
          /\ vgs' = r.st.w.vgs
          /\ lvs' = r.st.w.lvs
          /\ mounts' = r.st.w.mounts
          /\ last' = [last EXCEPT !.op = "snapshot", !.rc = r.rc,
                                  !.changed = r.changed, !.cmds = r.st.cmds]

NextName ==
    \/ NameCall
    \/ NameCreate

NameSpec == NameInit /\ [][NextName]_vars

(***************************************************************************)
(* mount_verify on its own.  The inventory is the one of the probes with   *)
(* the snapshot vg1/a_s; the mount table mounts, at each of two mount      *)
(* points, nothing or one of three devices.  last holds the arguments and, *)
(* once the call is made, the status returned.                             *)
(***************************************************************************)
VerifyMountPoints == {MountPointOf(lv) : lv \in LVNames}

VerifyDevices ==
    { path_join(DEV_PREFIX, "vg1", "a"),
      path_join(DEV_PREFIX, "vg1", get_snapshot_name("a", "s")),
      path_join(DEV_PREFIX, "vg2", "a") }

MountTables ==
    UNION { [targets -> VerifyDevices] : targets \in SUBSET VerifyMountPoints }

MountVerifyInit ==
    /\ \E table \in MountTables :
          LET Set(w) == /\ vgs = w.vgs
                        /\ lvs = w.lvs
                        /\ mounts = w.mounts
          IN  Set(MountTableSet(
                  [vgs |-> [v \in {"vg1", "vg2"} |->
                              IF v = "vg1"
                              THEN [vg_size |-> 16000, vg_free |-> 7000,
                                    vg_extent_size |-> 4]
                              ELSE [vg_size |-> 2000, vg_free |-> 560,
                                    vg_extent_size |-> 4]],
                   lvs |-> [k \in {<<"vg1", "a">>, <<"vg1", "b">>, <<"vg2", "a">>,
                                   <<"vg1", get_snapshot_name("a", "s")>>} |->
                              IF k[2] \in LVNames
                              THEN [kind |-> "plain", open |-> FALSE,
                                    lv_size |-> IF k = <<"vg1", "a">> THEN 5000
                                                ELSE IF k = <<"vg1", "b">> THEN 2000
                                                ELSE 1000]
                              ELSE [kind |-> "snapshot", open |-> FALSE,
                                    lv_size |-> 1000]],
                   mounts |-> << >>, fault |-> 0, report_fault |-> "none",
                   lvs_output |-> "ok"],
                  table))
    /\ \E origin \in BOOLEAN, mountpoint \in VerifyMountPoints \cup {""},
          vg_name \in VGNames, lv_name \in LVNames :
          last = [op |-> "args", origin |-> origin, mountpoint |-> mountpoint,
                  vg_name |-> vg_name, lv_name |-> lv_name, snapset_name |-> "s",
                  rc |-> ""]

MountVerifyCall ==
    /\ last.op = "args"
    /\ last' = [last EXCEPT
                   !.op = "mount_verify",
                   !.rc = mount_verify(World, last.origin, last.mountpoint, "",
                                       last.vg_name, last.lv_name, last.snapset_name)]
    /\ UNCHANGED <<vgs, lvs, mounts>>

MountVerifySpec == MountVerifyInit /\ [][MountVerifyCall]_vars

(***************************************************************************)
(* check_required_space on its own.  The requested percentage is an        *)
(* integer or a string; a string is the sequence of its characters, so     *)
(* that int() is the parse that Python makes of it: blanks stripped at     *)
(* both ends, one optional sign, then decimal digits, with single          *)
(* underscores allowed between digits; anything else raises ValueError.    *)
(***************************************************************************)
PercentChars == {"0", "1", "2", "-", "+", " ", ".", "_", "%"}

DigitChars == <<"0", "1", "2", "3", "4", "5", "6", "7", "8", "9">>

IsDigit(c) == \E i \in DOMAIN DigitChars : DigitChars[i] = c

DigitValue(c) == (CHOOSE i \in DOMAIN DigitChars : DigitChars[i] = c) - 1

RECURSIVE Strip(_)
Strip(str) ==
    IF str = << >> THEN str
    ELSE IF Head(str) = " " THEN Strip(Tail(str))
    ELSE IF str[Len(str)] = " " THEN Strip(SubSeq(str, 1, Len(str) - 1))
    ELSE str

\* the digits of str from position i on, read left to right into acc; prev
\* tells whether the character before position i was a digit
RECURSIVE ReadDigits(_, _, _, _)
ReadDigits(str, i, acc, prev) ==
    IF i > Len(str)
    THEN [error |-> ~prev, value |-> acc]
    ELSE IF IsDigit(str[i])
    THEN ReadDigits(str, i + 1, acc * 10 + DigitValue(str[i]), TRUE)
    ELSE IF str[i] = "_" /\ prev
    THEN ReadDigits(str, i + 1, acc, FALSE)
    ELSE [error |-> TRUE, value |-> 0]

\* int(x) of Python for an integer or a string x; error: ValueError is raised
int(x) ==
    IF x.type = "int"
    THEN [error |-> FALSE, value |-> x.value]
    ELSE LET Signed(body) ==
                 IF body # << >> /\ Head(body) = "-"
                 THEN LET Negated(r) == [r EXCEPT !.value = 0 - @]
                      IN  Negated(ReadDigits(body, 2, 0, FALSE))
                 ELSE IF body # << >> /\ Head(body) = "+"
                 THEN ReadDigits(body, 2, 0, FALSE)
                 ELSE ReadDigits(body, 1, 0, FALSE)
         IN  Signed(Strip(x.chars))

\* a check that rejects only what is below 1; used to show that C29 rests on
\* the rejection of 1 itself
check_required_space_below_one(required_space_str) ==
    LET Checked(percent_space_required) ==
            IF percent_space_required.error
            THEN SnapshotStatus.ERROR_INVALID_PERCENT_REQUESTED
            ELSE IF percent_space_required.value < 1
            THEN SnapshotStatus.ERROR_INVALID_PERCENT_REQUESTED
            ELSE SnapshotStatus.SNAPSHOT_OK
    IN  Checked(int(required_space_str))

check_required_space(required_space_str) ==
    LET Checked(percent_space_required) ==
            IF percent_space_required.error
            THEN SnapshotStatus.ERROR_INVALID_PERCENT_REQUESTED
            ELSE IF percent_space_required.value <= 1
            THEN SnapshotStatus.ERROR_INVALID_PERCENT_REQUESTED
            ELSE SnapshotStatus.SNAPSHOT_OK
    IN  Checked(int(required_space_str))

PercentStrings ==
    UNION { [1..n -> PercentChars] : n \in 0..MaxPercentLen }

PercentInputs ==
    { [type |-> "str", chars |-> cs, value |-> 0] : cs \in PercentStrings }
        \cup { [type |-> "int", chars |-> << >>, value |-> v] : v \in (0 - 2)..MaxPercentLen }

PercentInit ==
    /\ vgs = << >>
    /\ lvs = << >>
    /\ mounts = << >>
    /\ \E required_space_str \in PercentInputs :
          last = [op |-> "args", required_space_str |-> required_space_str, rc |-> ""]

PercentCall ==
    /\ last.op = "args"
    /\ last' = [last EXCEPT !.op = "check_required_space",
                            !.rc = check_required_space(last.required_space_str)]
    /\ UNCHANGED <<vgs, lvs, mounts>>

PercentSpec == PercentInit /\ [][PercentCall]_vars

(***************************************************************************)
(* get_json_from_args and list_cmd on their own.  The inventory holds the  *)
(* plain volumes vg1/a and vg1/b and may hold vg1/a_s (a snapshot or a     *)
(* plain volume), the thin pool vg1/pool and vg2/a; vg1/a may be mounted.  *)
(* last holds the module arguments, the pattern of volume groups to        *)
(* include and the tool that fails during the call, if any, and, once the  *)
(* call is made, what it returned.                                         *)
(***************************************************************************)
ArgsInit ==
    /\ vgs = [v \in {"vg1", "vg2"} |->
                IF v = "vg1"
                THEN [vg_size |-> 16000, vg_free |-> 7000, vg_extent_size |-> 4]
                ELSE [vg_size |-> 2000, vg_free |-> 560, vg_extent_size |-> 4]]
    /\ \E target \in {"absent", "snapshot", "plain"}, pool \in BOOLEAN, other \in BOOLEAN :
          lvs = [k \in {<<"vg1", "a">>, <<"vg1", "b">>}
                       \cup (IF target = "absent" THEN {}
                             ELSE {<<"vg1", get_snapshot_name("a", "s")>>})
                       \cup (IF pool THEN {<<"vg1", "pool">>} ELSE {})
                       \cup (IF other THEN {<<"vg2", "a">>} ELSE {}) |->
                   IF k[2] = "pool"
                   THEN [kind |-> "thinpool", open |-> FALSE, lv_size |-> 3000]
                   ELSE IF k[2] \in LVNames
                   THEN [kind |-> "plain", open |-> FALSE, lv_size |-> 1000]
                   ELSE [kind |-> target, open |-> FALSE, lv_size |-> 512]]
    /\ \E mounted \in BOOLEAN :
          mounts = IF mounted
                   THEN [t \in {MountPointOf("a")} |-> path_join(DEV_PREFIX, "vg1", "a")]
                   ELSE << >>
    /\ \E action \in {"snapshot", "mount", "umount", "list"}, all_vgs \in BOOLEAN,
          vg \in VGNames \cup {""}, lv \in {"", "a", "pool"},
          name \in SnapsetNames \cup {"b", "t", "", None},
          include \in {{}, {"vg1"}}, is_none \in BOOLEAN,
          tool \in ToolFaults \cup {"none"} :
          /\ is_none => include = {}
          /\ last = [op |-> "args",
                     module_args |->
                        [snapshot_lvm_action |-> action,
                         snapshot_lvm_all_vgs |-> all_vgs,
                         snapshot_lvm_vg |-> vg,
                         snapshot_lvm_lv |-> lv,
                         snapshot_lvm_snapset_name |-> name,
                         snapshot_lvm_percent_space_required |-> MountPercent,
                         snapshot_lvm_mountpoint_create |-> FALSE,
                         snapshot_lvm_mountpoint |-> MountPointOf("a"),
                         snapshot_lvm_mount_origin |-> FALSE,
                         snapshot_lvm_fstype |-> "",
                         snapshot_lvm_mount_options |-> "",
                         snapshot_lvm_unmount_all |-> FALSE],
                     vg_include |-> [is_none |-> is_none, search |-> include],
                     tool |-> tool,
                     rc |-> "", data |-> None, changed |-> FALSE]

ArgsCall ==
    /\ last.op = "args"
    /\ last.module_args.snapshot_lvm_action # "list"
    /\ \E w \in {IF last.tool = "none" THEN World ELSE Faulty(World, last.tool)} :
       \E r \in {get_json_from_args(w, last.module_args, last.vg_include)} :
          last' = [last EXCEPT !.op = "get_json_from_args", !.rc = r.rc,
                               !.data = r.args_dict]
    /\ UNCHANGED <<vgs, lvs, mounts>>

ListCall ==
    /\ last.op = "args"
    /\ last.module_args.snapshot_lvm_action = "list"
    /\ \E w \in {IF last.tool = "none" THEN World ELSE Faulty(World, last.tool)} :
       \E r \in {list_cmd(w, last.module_args, last.vg_include)} :
          last' = [last EXCEPT !.op = "list", !.rc = r.return_code,
                               !.data = r.data, !.changed = r.changed]
    /\ UNCHANGED <<vgs, lvs, mounts>>

ArgsSpec == ArgsInit /\ [][ArgsCall \/ ListCall]_vars

(***************************************************************************)
(* Vocabulary of the properties.                                           *)
(***************************************************************************)
LastSet == [name |-> last.name, volumes |-> last.volumes]

LastArgs ==
    [ansible_check_mode |-> last.check_mode, snapshot_lvm_verify_only |-> last.verify_only]

\* the derived snapshot name of the i-th member of the last command's set
Derived(i) == get_snapshot_name(last.volumes[i].lv, last.name)

SourceExistsIn(w, i) == LvExists(w, last.volumes[i].vg, last.volumes[i].lv)

DerivedExistsIn(w, i) == LvExists(w, last.volumes[i].vg, Derived(i))

DerivedIsSnapshotIn(w, i) ==
    /\ DerivedExistsIn(w, i)
    /\ w.lvs[<<last.volumes[i].vg, Derived(i)>>].kind = "snapshot"

DerivedIsOpenIn(w, i) ==
    /\ DerivedExistsIn(w, i)
    /\ w.lvs[<<last.volumes[i].vg, Derived(i)>>].open

Issued(cmd) == { i \in DOMAIN last.cmds : last.cmds[i].cmd = cmd }

AllCommandsSucceeded == \A i \in DOMAIN last.cmds : last.cmds[i].rc = 0

\* a fresh invocation of an entry point, started from inventory w
Invoke(op, w, module_args, snapset_dict, failAt) ==
    LET st == [w |-> w, cmds |-> << >>, failAt |-> failAt, class_lvs |-> << >>]
    IN  CASE op = "snapshot" -> snapshot_cmd(st, module_args, snapset_dict)
          [] op = "check" -> check_cmd(st, module_args, snapset_dict)
          [] op = "remove" -> remove_cmd(st, module_args, snapset_dict)
          [] op = "revert" -> revert_cmd(st, module_args, snapset_dict)
          [] op = "extend" -> extend_cmd(st, module_args, snapset_dict)
          [] op = "mount" ->
                mount_cmd(st, [ansible_check_mode |-> module_args.ansible_check_mode,
                               snapshot_lvm_verify_only |->
                                   module_args.snapshot_lvm_verify_only,
                               snapshot_lvm_mountpoint_create |-> FALSE], snapset_dict)
          [] op = "umount" -> umount_cmd(st, module_args, snapset_dict)

(***************************************************************************)
(* C1  Create is idempotent.  A create (not dry-run) of a set with at      *)
(* least one member, whose sources all exist and whose snapshots do not    *)
(* exist yet, with enough free space and every lvcreate succeeding,        *)
(* returns OK with changed = TRUE; create called again right after on the  *)
(* same set returns OK with changed = FALSE and runs no lvcreate.          *)
(***************************************************************************)
C1_FirstCreateCase ==
    /\ last.op = "snapshot"
    /\ ~last.check_mode
    /\ last.volumes # << >>
    /\ \A i \in DOMAIN last.volumes :
          SourceExistsIn(last.pre, i) /\ ~DerivedExistsIn(last.pre, i)
    /\ last.rc # SnapshotStatus.ERROR_SNAPSET_INSUFFICIENT_SPACE
    /\ AllCommandsSucceeded

C1_CreateTwiceIdempotent ==
    C1_FirstCreateCase =>
        /\ last.rc = SnapshotStatus.SNAPSHOT_OK
        /\ last.changed
        /\ \A failAt \in 0..MaxVolumes :
              LET second == Invoke("snapshot", World, LastArgs, LastSet, failAt)
              IN  /\ second.rc = SnapshotStatus.SNAPSHOT_OK
                  /\ ~second.changed
                  /\ second.st.cmds = << >>
                  /\ second.st.w = World

C1_Witness ==
    /\ C1_FirstCreateCase
    /\ Len(last.volumes) >= 2
    /\ Len(last.cmds) = Len(last.volumes)

(***************************************************************************)
(* C2  Remove aborts before removing anything when a member is in use.     *)
(* When remove runs on a set in which an existing derived snapshot is      *)
(* open, at whatever position of the list, it returns                      *)
(* ERROR_REMOVE_FAILED_INUSE with changed = FALSE, runs no lvremove and    *)
(* leaves the inventory as it was.                                         *)
(***************************************************************************)
C2_InUseCase ==
    /\ last.op = "remove"
    /\ ~last.verify_only
    /\ \E i \in DOMAIN last.volumes :
          DerivedIsSnapshotIn(last.pre, i) /\ DerivedIsOpenIn(last.pre, i)

C2_RemoveInUseAborts ==
    C2_InUseCase =>
        /\ last.rc = SnapshotStatus.ERROR_REMOVE_FAILED_INUSE
        /\ ~last.changed
        /\ Issued("lvremove") = {}
        /\ World = last.pre

\* the member in use is the second one; the first one's snapshot is closed
\* and would have been removable
C2_Witness ==
    /\ C2_InUseCase
    /\ ~last.check_mode
    /\ Len(last.volumes) >= 2
    /\ DerivedIsSnapshotIn(last.pre, 1) /\ ~DerivedIsOpenIn(last.pre, 1)
    /\ DerivedIsSnapshotIn(last.pre, 2) /\ DerivedIsOpenIn(last.pre, 2)

(***************************************************************************)
(* Set-wide conditions of the create precheck, stated on an inventory w    *)
(* for the set of the last command.                                        *)
(***************************************************************************)
AllSourcesExistIn(w) == \A i \in DOMAIN last.volumes : SourceExistsIn(w, i)

NoDerivedExistsIn(w) == \A i \in DOMAIN last.volumes : ~DerivedExistsIn(w, i)

AllNamesLegal ==
    \A i \in DOMAIN last.volumes :
        Len(last.volumes[i].lv) + Len(last.name) <= MAX_LVM_NAME

\* sum over the members i..Len of the set that lie in group vg of size(k)
RECURSIVE SumInGroup(_, _, _)
SumInGroup(vg, i, size) ==
    IF i > Len(last.volumes)
    THEN 0
    ELSE (IF last.volumes[i].vg = vg THEN size[i] ELSE 0) + SumInGroup(vg, i + 1, size)

\* the size create asks of lvcreate for member i, from the inventory captured in w
PlannedSize(w) ==
    [i \in DOMAIN last.volumes |->
        get_space_needed(last.volumes[i].vg, last.volumes[i].lv,
            last.volumes[i].percent_space_required,
            get_current_space_state(w, << >>).dict)]

\* requiredSnapshotSize of member i: from its own size and its own group's extent
OwnRequiredSize(w) ==
    [i \in DOMAIN last.volumes |->
        get_snapshot_size_required(
            w.lvs[<<last.volumes[i].vg, last.volumes[i].lv>>].lv_size,
            last.volumes[i].percent_space_required,
            w.vgs[last.volumes[i].vg].vg_extent_size)]

GroupsOfSet == { last.volumes[i].vg : i \in DOMAIN last.volumes }

(***************************************************************************)
(* C3  No lvcreate before the whole-set precheck has passed.  Whenever     *)
(* create has run an lvcreate, every source of the set existed, no derived *)
(* name existed, every name was legal and, in every volume group of the    *)
(* set, the sizes planned for the set's members fitted together in the     *)
(* group's free space, all in the inventory the command started from;      *)
(* when create returns ERROR_SNAPSET_INSUFFICIENT_SPACE no command has     *)
(* been run, changed = FALSE and the inventory is as it was.               *)
(***************************************************************************)
C3_NoCreateBeforePrecheck ==
    /\ Issued("lvcreate") # {} =>
          /\ last.op = "snapshot"
          /\ AllSourcesExistIn(last.pre)
          /\ NoDerivedExistsIn(last.pre)
          /\ AllNamesLegal
          /\ \A vg \in GroupsOfSet :
                SumInGroup(vg, 1, PlannedSize(last.pre)) <= last.pre.vgs[vg].vg_free
    /\ last.rc = SnapshotStatus.ERROR_SNAPSET_INSUFFICIENT_SPACE =>
          /\ last.cmds = << >>
          /\ ~last.changed
          /\ World = last.pre

\* a real create refused for space although each member alone would fit:
\* only the sum over the group is too large
C3_Witness ==
    /\ last.op = "snapshot"
    /\ ~last.check_mode
    /\ last.rc = SnapshotStatus.ERROR_SNAPSET_INSUFFICIENT_SPACE
    /\ Len(last.volumes) >= 2
    /\ \A i \in DOMAIN last.volumes :
          PlannedSize(last.pre)[i] <= last.pre.vgs[last.volumes[i].vg].vg_free

(***************************************************************************)
(* C4  The space precheck fails exactly when a group is over-committed.    *)
(* When create or check reaches the space precheck (sources exist, no      *)
(* derived name exists), the result is ERROR_SNAPSET_INSUFFICIENT_SPACE if *)
(* and only if, for some volume group of the set, the sum of the required  *)
(* sizes of the set's members in that group, each computed from the        *)
(* member's own size and its own group's extent size, exceeds the group's  *)
(* free space.                                                             *)
(***************************************************************************)
C4_ReachesSpacePrecheck ==
    /\ last.op \in {"snapshot", "check"}
    /\ ~last.verify_only \/ last.op = "snapshot"
    /\ AllSourcesExistIn(last.pre)
    /\ NoDerivedExistsIn(last.pre)

C4_SpacePrecheckIffOverCommitted ==
    C4_ReachesSpacePrecheck =>
        ( last.rc = SnapshotStatus.ERROR_SNAPSET_INSUFFICIENT_SPACE
          <=> \E vg \in GroupsOfSet :
                 SumInGroup(vg, 1, OwnRequiredSize(last.pre)) > last.pre.vgs[vg].vg_free )

(***************************************************************************)
(* C5  A blocking ordinary volume is a name conflict.  A create of a set   *)
(* one of whose derived snapshot names exists as a volume that is not a    *)
(* snapshot returns ERROR_NAME_CONFLICT with changed = FALSE and creates   *)
(* nothing.                                                                *)
(***************************************************************************)
C5_BlockedCase ==
    /\ last.op = "snapshot"
    /\ AllSourcesExistIn(last.pre)
    /\ \E i \in DOMAIN last.volumes :
          DerivedExistsIn(last.pre, i) /\ ~DerivedIsSnapshotIn(last.pre, i)

C5_NonSnapshotTargetIsNameConflict ==
    C5_BlockedCase =>
        /\ last.rc = SnapshotStatus.ERROR_NAME_CONFLICT
        /\ ~last.changed
        /\ Issued("lvcreate") = {}

(***************************************************************************)
(* C6  Dry-run never reports a change.  Every create, extend, remove or    *)
(* revert called with check_mode set returns changed = FALSE.              *)
(***************************************************************************)
C6_DryRunReportsNoChange ==
    (last.op \in {"snapshot", "extend", "remove", "revert"} /\ last.check_mode)
        => ~last.changed

(***************************************************************************)
(* C7  Dry-run mutates nothing and verifies as a real run does.  A create, *)
(* extend, remove or revert called with check_mode set runs no mutating    *)
(* command and leaves the inventory as it was; and it returns the status   *)
(* that the real run on the same inventory returns when the volume manager *)
(* carries out every command of that run.                                  *)
(***************************************************************************)
C7_DryRunCase ==
    /\ last.op \in {"snapshot", "extend", "remove", "revert"}
    /\ last.check_mode

RealRunOfLast ==
    Invoke(last.op, last.pre, [LastArgs EXCEPT !.ansible_check_mode = FALSE], LastSet, 0)

C7_DryRunMutatesNothing ==
    C7_DryRunCase =>
        /\ last.cmds = << >>
        /\ World = last.pre
        /\ (\A i \in DOMAIN RealRunOfLast.st.cmds : RealRunOfLast.st.cmds[i].rc = 0) =>
              RealRunOfLast.rc = last.rc

\* a dry-run whose real run mutates: at least two commands would be run
C7_Witness ==
    /\ C7_DryRunCase
    /\ ~last.verify_only
    /\ last.rc = SnapshotStatus.SNAPSHOT_OK
    /\ Len(RealRunOfLast.st.cmds) >= 2
    /\ RealRunOfLast.st.w # last.pre
    /\ World = last.pre

(***************************************************************************)
(* C8  Verify-only never mutates.  Every entry point called with the       *)
(* verify-only flag set, whatever the dry-run flag, runs no mutating       *)
(* command, leaves the inventory as it was and returns changed = FALSE.    *)
(***************************************************************************)
C8_VerifyOnlyMutatesNothing ==
    (last.op # "none" /\ last.verify_only) =>
        /\ last.cmds = << >>
        /\ ~last.changed
        /\ World = last.pre

(***************************************************************************)
(* C9  Remove skips what is absent.  A remove of a set none of whose       *)
(* derived snapshots exist returns OK with changed = FALSE and runs no     *)
(* lvremove.  More generally, in a real remove where no existing derived   *)
(* volume is open, every existing one is a snapshot and no command is      *)
(* failed, the result is OK, one lvremove is run for each existing derived *)
(* snapshot, in list order, absent ones are passed over, and afterwards    *)
(* none of the set's derived snapshots exists.                             *)
(***************************************************************************)
C9_RemoveCase == last.op = "remove" /\ ~last.verify_only

\* the derived volumes of members i..Len that exist in w, in list order
RECURSIVE ExistingDerivedFrom(_, _)
ExistingDerivedFrom(w, i) ==
    IF i > Len(last.volumes)
    THEN << >>
    ELSE (IF DerivedExistsIn(w, i)
          THEN << <<last.volumes[i].vg, Derived(i)>> >>
          ELSE << >>) \o ExistingDerivedFrom(w, i + 1)

C9_CleanRemove ==
    /\ C9_RemoveCase
    /\ ~last.check_mode
    /\ \A i \in DOMAIN last.volumes :
          DerivedExistsIn(last.pre, i) =>
              (DerivedIsSnapshotIn(last.pre, i) /\ ~DerivedIsOpenIn(last.pre, i))
    /\ AllCommandsSucceeded

C9_RemoveSkipsAbsent ==
    /\ (C9_RemoveCase /\ NoDerivedExistsIn(last.pre)) =>
          /\ last.rc = SnapshotStatus.SNAPSHOT_OK
          /\ ~last.changed
          /\ last.cmds = << >>
          /\ World = last.pre
    /\ C9_CleanRemove =>
          /\ last.rc = SnapshotStatus.SNAPSHOT_OK
          /\ [i \in DOMAIN last.cmds |-> <<last.cmds[i].vg, last.cmds[i].lv>>]
                = ExistingDerivedFrom(last.pre, 1)
          /\ \A i \in DOMAIN last.cmds : last.cmds[i].cmd = "lvremove"
          /\ last.changed <=> (last.cmds # << >>)
          /\ NoDerivedExistsIn(World)

\* the first member's snapshot is absent, the second one's is there and is removed
C9_Witness ==
    /\ C9_CleanRemove
    /\ Len(last.volumes) >= 2
    /\ ~DerivedExistsIn(last.pre, 1)
    /\ DerivedExistsIn(last.pre, 2)
    /\ ~DerivedExistsIn(World, 2)
    /\ last.changed

(***************************************************************************)
(* C10  Revert of a vanished snapshot is OK.  Revert never returns         *)
(* ERROR_LV_NOTFOUND or ERROR_SNAPSET_SOURCE_DOES_NOT_EXIST; on a set      *)
(* whose first member's derived snapshot does not exist it returns OK with *)
(* changed = FALSE and runs no command; and a real revert that has run no  *)
(* lvconvert reports changed = FALSE.                                      *)
(***************************************************************************)
C10_RevertCase == last.op = "revert" /\ ~last.verify_only

LoopOps == {"snapshot", "extend", "remove", "revert", "mount", "umount"}

\* the step of member i, started in run state st: its status and the run after it
PerVolumeStep(op, st, i) ==
    LET item == last.volumes[i]
        snapshot_name == get_snapshot_name(item.lv, last.name)
    IN  CASE op = "snapshot" ->
               LET made == snapshot_lv(st, item.vg, item.lv, last.name,
                               PlannedSize(last.pre)[i], last.check_mode)
               IN  [rc |-> made.rc, st |-> made.st]
          [] op = "extend" ->
               LET grown == extend_lv_snapshot(st, item.vg, item.lv, last.name,
                                item.percent_space_required, last.check_mode)
               IN  [rc |-> grown.rc, st |-> grown.st]
          [] op = "remove" ->
               IF ~LvExists(st.w, item.vg, snapshot_name)
               THEN [rc |-> SnapshotStatus.SNAPSHOT_OK, st |-> st]
               ELSE lvm_snapshot_remove(st, item.vg, snapshot_name, last.check_mode)
          [] op = "revert" -> revert_lv(st, item.vg, snapshot_name, last.check_mode)
          [] op = "mount" ->
               LET mounted == mount_lv(st, item.mountpoint_create, ItemOrigin(item),
                                  item.mountpoint, "",
                                  path_join(DEV_PREFIX, item.vg, snapshot_name), "",
                                  item.vg, item.lv, last.name, last.check_mode)
               IN  [rc |-> mounted.rc, st |-> mounted.st]
          [] op = "umount" ->
               LET unmounted == umount_lv(st, item.mountpoint, item.vg, snapshot_name,
                                    FALSE, last.check_mode)
               IN  [rc |-> unmounted.rc, st |-> unmounted.st]

\* the steps of members i..Len in order, stopping at the first non-OK one
RECURSIVE UntilFirstFailure(_, _, _)
UntilFirstFailure(op, st, i) ==
    IF i > Len(last.volumes)
    THEN [rc |-> SnapshotStatus.SNAPSHOT_OK, failed |-> 0, st |-> st]
    ELSE LET step == PerVolumeStep(op, st, i)
         IN  IF step.rc # SnapshotStatus.SNAPSHOT_OK
             THEN [rc |-> step.rc, failed |-> i, st |-> step.st]
             ELSE UntilFirstFailure(op, step.st, i + 1)

\* the command reached its loop: the passes over the whole set that come
\* before it (create's precheck, remove's in-use pass) found nothing
LoopReached ==
    /\ last.op \in LoopOps
    /\ ~last.verify_only \/ last.op = "snapshot"
    /\ last.op = "snapshot" =>
          snapshot_precheck_lv_set(last.pre, << >>, LastSet).rc = SnapshotStatus.SNAPSHOT_OK
    /\ last.op = "remove" =>
          RemovableFrom(last.pre, last.name, last.volumes, 1) = SnapshotStatus.SNAPSHOT_OK

ShortCircuitRun ==
    UntilFirstFailure(last.op,
        [w |-> last.pre, cmds |-> << >>, failAt |-> last.failAt, class_lvs |-> << >>], 1)

C12_RealRun ==
    /\ last.op \in {"snapshot", "extend", "remove", "revert", "mount", "umount"}
    /\ ~last.check_mode
    /\ ~last.verify_only

SomeCommandSucceeded == \E i \in DOMAIN last.cmds : last.cmds[i].rc = 0

C12_ChangedIffMutated ==
    C12_RealRun => (last.changed <=> SomeCommandSucceeded)

\* a real run that ends with a non-OK status after an earlier volume was
\* mutated: changed is TRUE although the call failed
C12_Witness ==
    /\ C12_RealRun
    /\ last.rc # SnapshotStatus.SNAPSHOT_OK
    /\ last.changed
    /\ SomeCommandSucceeded
    /\ World # last.pre


(***************************************************************************)
(* The size computation as the specification states it, written without    *)
(* the program's helpers: the least whole number not below                 *)
(* lv_size * percent / 100, the least multiple of the extent not below     *)
(* that, and the larger of the latter and 512 MiB.                         *)
(***************************************************************************)
SizeReturned == last.op = "get_snapshot_size_required"

Ceiling(num, den) == CHOOSE n \in 0..num : n * den >= num /\ (n = 0 \/ (n - 1) * den < num)

RoundUpToMultiple(raw, extent) ==
    CHOOSE m \in raw..(raw + extent) :
        /\ m % extent = 0
        /\ \A k \in raw..(raw + extent) : k % extent = 0 => m <= k

Maximum(x, y) == IF x >= y THEN x ELSE y

(***************************************************************************)
(* C13  The required snapshot size.  get_snapshot_size_required(lv_size,   *)
(* percent, extent) equals max(roundUpToMultiple(ceiling(lv_size * percent *)
(* / 100), extent), 512 MiB) for all arguments of the bounded sets;        *)
(* (10 GiB, 20, 4 MiB) gives 2 GiB and (100 MiB, 20, 4 MiB) gives 512 MiB. *)
(***************************************************************************)
C13_SizeRequiredFormula ==
    SizeReturned =>
        /\ last.result =
              Maximum(RoundUpToMultiple(
                          Ceiling(last.lv_size * last.required_percent, 100),
                          last.extent_size),
                      512)
        /\ (last.lv_size = 10240 /\ last.required_percent = 20 /\ last.extent_size = 4)
              => last.result = 2048
        /\ (last.lv_size = 100 /\ last.required_percent = 20 /\ last.extent_size = 4)
              => last.result = 512

\* the first example: 10 GiB at 20 percent with 4 MiB extents, above the floor
C13_Witness ==
    /\ SizeReturned
    /\ last.lv_size = 10240 /\ last.required_percent = 20 /\ last.extent_size = 4
    /\ last.result = 2048

(***************************************************************************)
(* C14  The required size is a whole number of extents.  The result of     *)
(* get_snapshot_size_required is a multiple of the extent size it was      *)
(* given, for every source size, percent and extent size.                  *)
(***************************************************************************)
C14_MultipleOfExtent ==
    SizeReturned => last.result % last.extent_size = 0

(***************************************************************************)
(* C15  The required size is monotonic.  For a fixed extent size, a larger *)
(* source size at the same percent, or a larger percent at the same source *)
(* size, never gives a smaller result.                                     *)
(***************************************************************************)
C15_Monotonic ==
    SizeReturned =>
        /\ \A lv_size \in SourceSizes :
              lv_size >= last.lv_size =>
                 get_snapshot_size_required(lv_size, last.required_percent,
                                            last.extent_size) >= last.result
        /\ \A required_percent \in RequiredPercents :
              required_percent >= last.required_percent =>
                 get_snapshot_size_required(last.lv_size, required_percent,
                                            last.extent_size) >= last.result

\* a call above the floor for which a larger source size and a larger
\* percent both give a strictly larger result
C15_Witness ==
    /\ SizeReturned
    /\ last.result > 512
    /\ \E lv_size \in SourceSizes :
          /\ lv_size > last.lv_size
          /\ get_snapshot_size_required(lv_size, last.required_percent,
                                        last.extent_size) > last.result
    /\ \E required_percent \in RequiredPercents :
          /\ required_percent > last.required_percent
          /\ get_snapshot_size_required(last.lv_size, required_percent,
                                        last.extent_size) > last.result

(***************************************************************************)
(* C16  The floor.  The result of get_snapshot_size_required is at least   *)
(* 512 MiB for every source size, percent and extent size.                 *)
(***************************************************************************)
C16_AtLeastMinimum ==
    SizeReturned => last.result >= 512

\* a call whose rounded percentage lies below the floor
C16_Witness ==
    /\ SizeReturned
    /\ round_up(math_ceil(percentof(last.required_percent, last.lv_size)),
                last.extent_size) < 512
    /\ last.result = 512


(***************************************************************************)
(* C17  A missing source stops every set operation.  When create, extend,  *)
(* revert, remove, mount or umount is given a set one of whose members     *)
(* names a source volume group or a source logical volume that does not    *)
(* exist, the result is ERROR_SNAPSET_SOURCE_DOES_NOT_EXIST and no         *)
(* mutating command has been run.                                          *)
(***************************************************************************)
C17_MissingSourceCase ==
    /\ last.op \in {"snapshot", "extend", "revert", "remove", "mount", "umount"}
    /\ \E i \in DOMAIN last.volumes : ~SourceExistsIn(last.pre, i)

C17_MissingSourceFailsFirst ==
    C17_MissingSourceCase =>
        /\ last.rc = SnapshotStatus.ERROR_SNAPSET_SOURCE_DOES_NOT_EXIST
        /\ last.cmds = << >>


(***************************************************************************)
(* C18  A target that is not a snapshot is a hard failure.  When extend,   *)
(* revert or remove is given a set one of whose derived names exists as a  *)
(* volume that is not a snapshot, the result is not OK and no lvextend,    *)
(* lvconvert or lvremove has been run against that volume.                 *)
(***************************************************************************)
NonSnapshotTargets ==
    { i \in DOMAIN last.volumes :
        DerivedExistsIn(last.pre, i) /\ ~DerivedIsSnapshotIn(last.pre, i) }

C18_NonSnapshotCase ==
    /\ last.op \in {"extend", "revert", "remove"}
    /\ ~last.verify_only
    /\ NonSnapshotTargets # {}

C18_NonSnapshotTargetFails ==
    C18_NonSnapshotCase =>
        /\ last.rc # SnapshotStatus.SNAPSHOT_OK
        /\ \A i \in NonSnapshotTargets, c \in DOMAIN last.cmds :
              ~(last.cmds[c].vg = last.volumes[i].vg /\ last.cmds[c].lv = Derived(i))


(***************************************************************************)
(* Vocabulary of the probe properties.                                     *)
(***************************************************************************)
ProbeReturned == last.op = "probe"

\* what lvs exits with for the probed volume
LvsExitCode == run_lvs([World EXCEPT !.fault = last.tool_rc], last.vg_name, last.lv_name)

(***************************************************************************)
(* C19  Absence is a normal false.  An attribute probe (lvm_is_snapshot,   *)
(* lvm_is_thinpool, lvm_is_inuse) called for a volume that lvs reports as  *)
(* not found (exit code 5) returns SNAPSHOT_OK with the value FALSE and    *)
(* raises no exception.                                                    *)
(***************************************************************************)
C19_NotFoundCase ==
    /\ ProbeReturned
    /\ last.probe \in {"lvm_is_snapshot", "lvm_is_thinpool", "lvm_is_inuse"}
    /\ LvsExitCode = LVM_NOTFOUND_RC

C19_NotFoundIsFalse ==
    C19_NotFoundCase =>
        /\ last.rc = SnapshotStatus.SNAPSHOT_OK
        /\ last.value = FALSE
        /\ ~IsException(last.rc)

(***************************************************************************)
(* C20  A failing lvs is a command failure.  When lvs exits with a code    *)
(* that is neither 0 nor 5, every probe, lvm_lv_exists included, returns a *)
(* status other than SNAPSHOT_OK (the command failed), raises nothing, and *)
(* so never reports 'does not exist' with SNAPSHOT_OK.                     *)
(***************************************************************************)
C20_ToolFailedCase ==
    /\ ProbeReturned
    /\ LvsExitCode \notin {0, LVM_NOTFOUND_RC}

C20_ToolFailureSurfaced ==
    C20_ToolFailedCase =>
        /\ last.rc # SnapshotStatus.SNAPSHOT_OK
        /\ ~IsException(last.rc)

(***************************************************************************)
(* C21  Tool failures are returned, not raised.  A set operation run while *)
(* lvs or the full report fails (non-zero exit or output that does not     *)
(* decode) ends with a status in its result and not with the LvmBug        *)
(* exception; no fully-qualified lookup of these runs yields more than one *)
(* record, the one condition that may raise.                               *)
(***************************************************************************)
C21_ToolFailedCase ==
    /\ last.op \in FaultOps
    /\ \/ last.pre.fault # 0
       \/ last.pre.lvs_output = "garbage"
       \/ last.pre.report_fault # "none"

C21_ToolFailureReturned ==
    C21_ToolFailedCase => last.rc # LvmBug

(***************************************************************************)
(* C22  More than one record is an internal fault.  When lvs answers an    *)
(* attribute query (lvm_is_snapshot, lvm_is_thinpool) or an in-use query   *)
(* (lvm_is_inuse) for a vg/lv with more than one report entry or more than *)
(* one volume record, the probe raises LvmBug: it returns no status and    *)
(* does not pick one of the records.                                       *)
(***************************************************************************)
LvsReport ==
    run_lvs_json([World EXCEPT !.fault = last.tool_rc, !.lvs_output = last.lvs_output],
                 last.vg_name, last.lv_name)

C22_ManyRecordsCase ==
    /\ ProbeReturned
    /\ last.probe \in {"lvm_is_snapshot", "lvm_is_thinpool", "lvm_is_inuse"}
    /\ LvsReport.rc = 0
    /\ LvsReport.decoded
    /\ \/ Len(LvsReport.report) > 1
       \/ \E i \in DOMAIN LvsReport.report : Len(LvsReport.report[i].lv) > 1

C22_ManyRecordsRaise ==
    C22_ManyRecordsCase => last.rc = LvmBug

C22_Witness ==
    /\ C22_ManyRecordsCase
    /\ last.probe = "lvm_is_inuse"
    /\ Len(LvsReport.report) = 1
    /\ last.rc = LvmBug

(***************************************************************************)
(* C23  Extend, applied, per volume.  For a member whose derived target is *)
(* a snapshot: when the snapshot's current size is at least the required   *)
(* size recomputed from the inventory, no lvextend is run for it;          *)
(* otherwise exactly one lvextend, to the required size, is run for it     *)
(* when the run gets to it.  changed is TRUE exactly when some lvextend    *)
(* succeeded.                                                              *)
(***************************************************************************)
C23_ExtendApplied ==
    /\ last.op = "extend"
    /\ ~last.check_mode
    /\ ~last.verify_only

C23_CurrentSize(i) == last.pre.lvs[<<last.volumes[i].vg, Derived(i)>>].lv_size

\* the lvextend commands of the run for the snapshot of member i
C23_ExtendsOf(i) ==
    { k \in Issued("lvextend") :
        /\ last.cmds[k].vg = last.volumes[i].vg
        /\ last.cmds[k].lv = Derived(i) }

C23_ExtendPerVolume ==
    C23_ExtendApplied =>
        /\ \A i \in DOMAIN last.volumes :
              (SourceExistsIn(last.pre, i) /\ DerivedIsSnapshotIn(last.pre, i)) =>
                  /\ C23_CurrentSize(i) >= PlannedSize(last.pre)[i]
                        => C23_ExtendsOf(i) = {}
                  /\ Cardinality(C23_ExtendsOf(i)) <= 1
                  /\ \A k \in C23_ExtendsOf(i) :
                        last.cmds[k].size = PlannedSize(last.pre)[i]
                  /\ (last.rc = SnapshotStatus.SNAPSHOT_OK
                        /\ C23_CurrentSize(i) < PlannedSize(last.pre)[i])
                        => Cardinality(C23_ExtendsOf(i)) = 1
        /\ last.changed <=> \E k \in Issued("lvextend") : last.cmds[k].rc = 0

(***************************************************************************)
(* C24  Extend verify-only confirms snapshot-ness and size.  A verify-only *)
(* extend returns a status other than SNAPSHOT_OK whenever the derived     *)
(* target of some member exists and is not a snapshot, and whenever the    *)
(* current size of some member's target is below the required size         *)
(* recomputed from the inventory.                                          *)
(***************************************************************************)
C24_ExtendVerify ==
    /\ last.op = "extend"
    /\ last.verify_only

C24_NotSnapshotCase ==
    /\ C24_ExtendVerify
    /\ \E i \in DOMAIN last.volumes :
          DerivedExistsIn(last.pre, i) /\ ~DerivedIsSnapshotIn(last.pre, i)

C24_TooSmallCase ==
    /\ C24_ExtendVerify
    /\ \E i \in DOMAIN last.volumes :
          /\ SourceExistsIn(last.pre, i)
          /\ DerivedExistsIn(last.pre, i)
          /\ C23_CurrentSize(i) < PlannedSize(last.pre)[i]

C24_ExtendVerifyFails ==
    (C24_NotSnapshotCase \/ C24_TooSmallCase) => last.rc # SnapshotStatus.SNAPSHOT_OK

(***************************************************************************)
(* C25  The name check.  check_name_for_snapshot(lv_name, suffix) returns  *)
(* ERROR_NAME_TOO_LONG when len(lv_name) + len(suffix) > 127, an empty or  *)
(* absent suffix counting as length 0, and SNAPSHOT_OK otherwise; a create *)
(* for a set with a member whose name is too long fails with               *)
(* ERROR_NAME_TOO_LONG and runs no command.                                *)
(***************************************************************************)
SuffixLength(suffix) == IF suffix = None THEN 0 ELSE Len(suffix)

TooLong(lv_name, suffix) == Len(lv_name) + SuffixLength(suffix) > MAX_LVM_NAME

C25_CheckReturned == last.op = "check_name_for_snapshot"

C25_CheckIsTooLongIff ==
    C25_CheckReturned =>
        last.rc = IF TooLong(last.lv_name, last.name)
                  THEN SnapshotStatus.ERROR_NAME_TOO_LONG
                  ELSE SnapshotStatus.SNAPSHOT_OK

C25_CreateCase ==
    /\ last.op = "snapshot"
    /\ \E i \in DOMAIN last.volumes : TooLong(last.volumes[i].lv, last.name)

C25_CreateFailsTooLong ==
    C25_CreateCase =>
        /\ last.rc = SnapshotStatus.ERROR_NAME_TOO_LONG
        /\ last.cmds = << >>

C25_NameTooLong ==
    /\ C25_CheckIsTooLongIff
    /\ C25_CreateFailsTooLong

(***************************************************************************)
(* C26  The tri-state of the Mount Interface.  For a mount or unmount of   *)
(* one volume whose device exists: when the interface answers 'already     *)
(* mounted' (mount) or 'not mounted' (unmount) the result is SNAPSHOT_OK   *)
(* with changed = FALSE; when it answers OK the result is SNAPSHOT_OK with *)
(* changed = TRUE; any other answer is the status of the result, with      *)
(* changed = FALSE.  So a mount or unmount that returned SNAPSHOT_OK,      *)
(* called once more, returns SNAPSHOT_OK with changed = FALSE.             *)
(***************************************************************************)
C26_Applied ==
    /\ last.op \in {"mount", "umount"}
    /\ ~last.verify_only

\* the volume that member i mounts or unmounts
C26_Device(i) ==
    IF ItemOrigin(last.volumes[i]) THEN last.volumes[i].lv ELSE Derived(i)

\* what the Mount Interface answers to the call made for member 1 of the run
C26_Answer ==
    LET st == [w |-> last.pre, cmds |-> << >>, failAt |-> last.failAt,
               class_lvs |-> << >>]
    IN  IF last.op = "mount"
        THEN mount(st, path_join(DEV_PREFIX, last.volumes[1].vg, C26_Device(1)),
                   last.volumes[1].mountpoint, "", "", FALSE, last.check_mode).rc
        ELSE umount(st, last.volumes[1].mountpoint, FALSE, last.check_mode).rc

C26_OneVolumeCase ==
    /\ C26_Applied
    /\ Len(last.volumes) = 1
    /\ LvExists(last.pre, last.volumes[1].vg, C26_Device(1))

C26_TriState ==
    /\ C26_OneVolumeCase =>
          IF C26_Answer \in {SnapshotStatus.ERROR_MOUNT_POINT_ALREADY_MOUNTED, SnapshotStatus.ERROR_UMOUNT_NOT_MOUNTED}
          THEN last.rc = SnapshotStatus.SNAPSHOT_OK /\ ~last.changed
          ELSE IF C26_Answer = SnapshotStatus.SNAPSHOT_OK
          THEN last.rc = SnapshotStatus.SNAPSHOT_OK /\ last.changed
          ELSE last.rc = C26_Answer /\ ~last.changed
    /\ (C26_Applied /\ ~last.check_mode /\ last.rc = SnapshotStatus.SNAPSHOT_OK) =>
          LET Again(r) == r.rc = SnapshotStatus.SNAPSHOT_OK /\ ~r.changed
          IN  Again(Invoke(last.op, World, LastArgs, LastSet, 0))

C26_Witness ==
    /\ C26_OneVolumeCase
    /\ last.op = "umount"
    /\ ~last.check_mode
    /\ C26_Answer = SnapshotStatus.ERROR_UMOUNT_NOT_MOUNTED
    /\ last.rc = SnapshotStatus.SNAPSHOT_OK
    /\ ~last.changed

(***************************************************************************)
(* C27  Mount verification.  mount_verify for a volume and a mount point   *)
(* returns SNAPSHOT_OK exactly when the device it resolves to (the         *)
(* snapshot, or the origin when mount_origin is set) exists and the mount  *)
(* table has a record of that device whose target is the mount point; when *)
(* the device exists and is not mounted, or is mounted only at another     *)
(* mount point, it returns ERROR_MOUNT_VERIFY_FAILED.                      *)
(***************************************************************************)
C27_Verified ==
    /\ last.op = "mount_verify"
    /\ last.mountpoint # ""

C27_DeviceLv ==
    IF last.origin THEN last.lv_name ELSE get_snapshot_name(last.lv_name, last.snapset_name)

C27_DeviceExists == <<last.vg_name, C27_DeviceLv>> \in DOMAIN lvs

\* the mount points at which the device is mounted
C27_MountedAt ==
    { t \in DOMAIN mounts :
        mounts[t] = path_join(DEV_PREFIX, last.vg_name, C27_DeviceLv) }

C27_MountVerifyIff ==
    C27_Verified =>
        /\ last.rc = SnapshotStatus.SNAPSHOT_OK
              <=> (C27_DeviceExists /\ last.mountpoint \in C27_MountedAt)
        /\ (C27_DeviceExists /\ last.mountpoint \notin C27_MountedAt)
              => last.rc = SnapshotStatus.ERROR_MOUNT_VERIFY_FAILED

C27_Witness ==
    /\ C27_Verified
    /\ C27_DeviceExists
    /\ C27_MountedAt # {}
    /\ last.mountpoint \notin C27_MountedAt
    /\ last.rc = SnapshotStatus.ERROR_MOUNT_VERIFY_FAILED

(***************************************************************************)
(* C28  Revert verification is remove verification.  A verify-only revert  *)
(* returns the status that a verify-only remove returns for the same set   *)
(* on the same inventory, and that status is SNAPSHOT_OK exactly when no   *)
(* volume with the derived name of a member exists.                        *)
(***************************************************************************)
C28_RevertVerified ==
    /\ last.op = "revert"
    /\ last.verify_only

C28_RevertVerifyIsRemoveVerify ==
    C28_RevertVerified =>
        /\ LET Same(r) == last.rc = r.rc /\ last.changed = r.changed
           IN  Same(Invoke("remove", last.pre, LastArgs, LastSet, 0))
        /\ last.rc = SnapshotStatus.SNAPSHOT_OK
              <=> \A i \in DOMAIN last.volumes : ~DerivedExistsIn(last.pre, i)

C28_Witness ==
    /\ C28_RevertVerified
    /\ Len(last.volumes) > 1
    /\ ~DerivedExistsIn(last.pre, 1)
    /\ \E i \in DOMAIN last.volumes :
          DerivedExistsIn(last.pre, i) /\ ~DerivedIsSnapshotIn(last.pre, i)
    /\ last.rc = SnapshotStatus.ERROR_VERIFY_REMOVE_FAILED

(***************************************************************************)
(* C29  The requested percentage.  check_required_space returns            *)
(* SNAPSHOT_OK exactly when the request is an integer greater than 1, or a *)
(* string that is the decimal text of one; for an integer that is at most  *)
(* 1, and for a string that is not the text of an integer, it returns      *)
(* ERROR_INVALID_PERCENT_REQUESTED.                                        *)
(***************************************************************************)
\* the text between the blanks at the two ends of cs
C29_Core(cs) ==
    LET inked == { i \in DOMAIN cs : cs[i] # " " }
    IN  IF inked = {} THEN << >>
        ELSE SubSeq(cs, CHOOSE i \in inked : \A j \in inked : i <= j,
                        CHOOSE i \in inked : \A j \in inked : i >= j)

\* the text without its sign
C29_Digits(cs) ==
    IF C29_Core(cs) # << >> /\ C29_Core(cs)[1] \in {"+", "-"}
    THEN Tail(C29_Core(cs))
    ELSE C29_Core(cs)

\* digits, with single underscores only between two digits
C29_IsIntegerText(cs) ==
    LET ds == C29_Digits(cs)
    IN  /\ ds # << >>
        /\ \A i \in DOMAIN ds : IsDigit(ds[i]) \/ ds[i] = "_"
        /\ \A i \in DOMAIN ds :
              ds[i] = "_" => /\ i > 1 /\ i < Len(ds)
                             /\ IsDigit(ds[i - 1]) /\ IsDigit(ds[i + 1])

\* an integer text stands for a number greater than 1 when it is not
\* negative, has a digit other than 0, and is not a 1 after zeros only
C29_TextGreaterThanOne(cs) ==
    LET digits == SelectSeq(C29_Digits(cs), LAMBDA c : c # "_")
    IN  /\ C29_Core(cs)[1] # "-"
        /\ \E i \in DOMAIN digits : digits[i] # "0"
        /\ ~(/\ digits[Len(digits)] = "1"
              /\ \A i \in 1..(Len(digits) - 1) : digits[i] = "0")

C29_Accepted ==
    IF last.required_space_str.type = "int"
    THEN last.required_space_str.value > 1
    ELSE /\ C29_IsIntegerText(last.required_space_str.chars)
         /\ C29_TextGreaterThanOne(last.required_space_str.chars)

C29_PercentChecked ==
    last.op = "check_required_space" =>
        last.rc = IF C29_Accepted THEN SnapshotStatus.SNAPSHOT_OK ELSE SnapshotStatus.ERROR_INVALID_PERCENT_REQUESTED

C29_Witness ==
    /\ last.op = "check_required_space"
    /\ last.required_space_str.type = "str"
    /\ C29_IsIntegerText(last.required_space_str.chars)
    /\ ~C29_TextGreaterThanOne(last.required_space_str.chars)
    /\ Len(last.required_space_str.chars) = MaxPercentLen
    /\ last.rc = SnapshotStatus.ERROR_INVALID_PERCENT_REQUESTED

(***************************************************************************)
(* C30  Create that returns OK has created the set.  When a create that is *)
(* not a dry run returns SNAPSHOT_OK, every member of the set has a        *)
(* snapshot with its derived name afterwards; so a create run again after  *)
(* a run that left only some of the snapshots creates the missing ones.    *)
(***************************************************************************)
C30_CreateReturnedOk ==
    /\ last.op = "snapshot"
    /\ ~last.check_mode
    /\ last.rc = SnapshotStatus.SNAPSHOT_OK

C30_CreateOkIsComplete ==
    C30_CreateReturnedOk =>
        \A i \in DOMAIN last.volumes : DerivedIsSnapshotIn(World, i)

(***************************************************************************)
(* C31  Revert that returns OK has reverted the set.  When a revert that   *)
(* is not a dry run and not verify-only returns SNAPSHOT_OK, no volume     *)
(* with the derived name of a member exists afterwards, and a verify-only  *)
(* revert run right after returns SNAPSHOT_OK; so the members listed after *)
(* one whose snapshot has vanished are reverted too.                       *)
(***************************************************************************)
C31_RevertReturnedOk ==
    /\ last.op = "revert"
    /\ ~last.check_mode
    /\ ~last.verify_only
    /\ last.rc = SnapshotStatus.SNAPSHOT_OK

C31_VerifyArgs == [ansible_check_mode |-> FALSE, snapshot_lvm_verify_only |-> TRUE]

C31_RevertOkIsComplete ==
    C31_RevertReturnedOk =>
        /\ \A i \in DOMAIN last.volumes : ~DerivedExistsIn(World, i)
        /\ Invoke("revert", World, C31_VerifyArgs, LastSet, 0).rc = SnapshotStatus.SNAPSHOT_OK

(***************************************************************************)
(* C32  Sizes come from the volume's own group.  Every lvcreate that       *)
(* create runs and every lvextend that extend runs for the snapshot of a   *)
(* member asks for the size required by that member's own logical volume   *)
(* in its own volume group; and in the space state built from the          *)
(* inventory, the volume map of a group names the volumes of that group    *)
(* and no others.                                                          *)
(***************************************************************************)
C32_SizedRun ==
    /\ last.op \in {"snapshot", "extend"}
    /\ ~last.check_mode
    /\ ~last.verify_only

\* the lvcreate and lvextend commands of the run for the snapshot of member i
C32_SizedCommandsOf(i) ==
    { k \in Issued("lvcreate") \cup Issued("lvextend") :
        /\ last.cmds[k].vg = last.volumes[i].vg
        /\ last.cmds[k].lv = Derived(i) }

C32_GroupMapsIndependent(w) ==
    LET Independent(state) ==
            \A vg \in DOMAIN state.dict :
                DOMAIN state.dict[vg].lvs = { k[2] : k \in { x \in DOMAIN w.lvs : x[1] = vg } }
    IN  Independent(get_current_space_state(w, << >>))

C32_SizeFromOwnVolume ==
    C32_SizedRun =>
        /\ \A i \in DOMAIN last.volumes : \A k \in C32_SizedCommandsOf(i) :
              last.cmds[k].size = OwnRequiredSize(last.pre)[i]
        /\ C32_GroupMapsIndependent(last.pre)

(***************************************************************************)
(* C33  Snapshot names fit the volume manager.  Whenever                   *)
(* check_name_for_snapshot returns SNAPSHOT_OK for a volume name and a     *)
(* suffix, the derived snapshot name, lv_name + "_" + suffix, has at most  *)
(* MAX_LVM_NAME characters; and every name that create gives to lvcreate   *)
(* has at most MAX_LVM_NAME characters.                                    *)
(***************************************************************************)
C33_CheckedOk ==
    /\ last.op = "check_name_for_snapshot"
    /\ last.rc = SnapshotStatus.SNAPSHOT_OK

C33_SnapshotNameFits ==
    /\ C33_CheckedOk => Len(get_snapshot_name(last.lv_name, last.name)) <= MAX_LVM_NAME
    /\ last.op = "snapshot" =>
          \A k \in Issued("lvcreate") : Len(last.cmds[k].lv) <= MAX_LVM_NAME

(***************************************************************************)
(* C34  Check verify-only confirms a created set.  A verify-only check     *)
(* returns SNAPSHOT_OK exactly when the source of every member exists and  *)
(* the derived name of every member exists and is a snapshot; and after a  *)
(* create that is not a dry run has returned SNAPSHOT_OK with changed =    *)
(* TRUE, a verify-only check of the same set run right after returns       *)
(* SNAPSHOT_OK.                                                            *)
(***************************************************************************)
C34_CheckVerified ==
    /\ last.op = "check"
    /\ last.verify_only

C34_Created ==
    /\ last.op = "snapshot"
    /\ ~last.check_mode
    /\ last.rc = SnapshotStatus.SNAPSHOT_OK
    /\ last.changed

C34_VerifyArgs == [ansible_check_mode |-> FALSE, snapshot_lvm_verify_only |-> TRUE]

C34_CheckVerifyConfirmsCreate ==
    /\ C34_CheckVerified =>
          (last.rc = SnapshotStatus.SNAPSHOT_OK
              <=> \A i \in DOMAIN last.volumes :
                     SourceExistsIn(last.pre, i) /\ DerivedIsSnapshotIn(last.pre, i))
    /\ C34_Created =>
          LET Confirmed(r) == r.rc = SnapshotStatus.SNAPSHOT_OK /\ ~r.changed
          IN  Confirmed(Invoke("check", World, C34_VerifyArgs, LastSet, 0))

\* a create that made the snapshots of a set of more than one member
C34_Witness ==
    /\ C34_Created
    /\ Len(last.volumes) > 1
    /\ Cardinality(Issued("lvcreate")) = Len(last.volumes)

(***************************************************************************)
(* C35  Remove that returns OK has removed the set.  When a remove that is *)
(* not a dry run and not verify-only returns SNAPSHOT_OK, no volume with   *)
(* the derived name of a member exists afterwards; a verify-only remove    *)
(* run right after returns SNAPSHOT_OK; and a second remove run right      *)
(* after returns SNAPSHOT_OK with changed = FALSE and runs no command.     *)
(***************************************************************************)
C35_Removed ==
    /\ last.op = "remove"
    /\ ~last.check_mode
    /\ ~last.verify_only
    /\ last.rc = SnapshotStatus.SNAPSHOT_OK

C35_RemoveOkIsComplete ==
    C35_Removed =>
        /\ \A i \in DOMAIN last.volumes : ~DerivedExistsIn(World, i)
        /\ LET Verified(r) == r.rc = SnapshotStatus.SNAPSHOT_OK /\ ~r.changed
           IN  Verified(Invoke("remove", World,
                   [ansible_check_mode |-> FALSE, snapshot_lvm_verify_only |-> TRUE],
                   LastSet, 0))
        /\ LET NoOp(r) == /\ r.rc = SnapshotStatus.SNAPSHOT_OK
                          /\ ~r.changed
                          /\ r.st.cmds = << >>
                          /\ r.st.w = World
           IN  NoOp(Invoke("remove", World,
                   [ansible_check_mode |-> FALSE, snapshot_lvm_verify_only |-> FALSE],
                   LastSet, 0))

(***************************************************************************)
(* C36  Extend is idempotent.  After an extend that is not a dry run and   *)
(* not verify-only has returned SNAPSHOT_OK, a verify-only extend of the   *)
(* same set run right after returns SNAPSHOT_OK, and a second extend with  *)
(* the same percentages returns SNAPSHOT_OK with changed = FALSE and runs  *)
(* no lvextend; and an extend run right after a create that made the       *)
(* snapshots, with the same percentages, does the same.                    *)
(***************************************************************************)
C36_Extended ==
    /\ last.op = "extend"
    /\ ~last.check_mode
    /\ ~last.verify_only
    /\ last.rc = SnapshotStatus.SNAPSHOT_OK

C36_Created ==
    /\ last.op = "snapshot"
    /\ ~last.check_mode
    /\ last.rc = SnapshotStatus.SNAPSHOT_OK
    /\ last.changed

C36_ExtendAgainIsNoOp ==
    LET NoOp(r) == /\ r.rc = SnapshotStatus.SNAPSHOT_OK
                   /\ ~r.changed
                   /\ r.st.cmds = << >>
    IN  NoOp(Invoke("extend", World,
            [ansible_check_mode |-> FALSE, snapshot_lvm_verify_only |-> FALSE],
            LastSet, 0))

C36_ExtendVerifyIsOk ==
    LET Verified(r) == r.rc = SnapshotStatus.SNAPSHOT_OK /\ ~r.changed
    IN  Verified(Invoke("extend", World,
            [ansible_check_mode |-> FALSE, snapshot_lvm_verify_only |-> TRUE],
            LastSet, 0))

C36_ExtendIdempotent ==
    /\ C36_Extended => (C36_ExtendVerifyIsOk /\ C36_ExtendAgainIsNoOp)
    /\ C36_Created => C36_ExtendAgainIsNoOp

(***************************************************************************)
(* The volume list and the list operation.                                 *)
(***************************************************************************)
\* get_json_from_args returned a volume list
C37_ListAssembled ==
    /\ last.op = "get_json_from_args"
    /\ last.rc = SnapshotStatus.SNAPSHOT_OK

\* what the inventory enumeration yields for the arguments of the call
C37_Enumeration ==
    vgs_lvs_iterator(World, last.module_args.snapshot_lvm_vg,
                     last.module_args.snapshot_lvm_lv, last.vg_include, FALSE)

\* the places of the enumeration: volume number li of the group number gi
C37_Places ==
    {p \in (1..Len(VGOrder)) \X (1..Len(LVOrder)) :
        /\ p[1] \in DOMAIN C37_Enumeration
        /\ p[2] \in DOMAIN C37_Enumeration[p[1]].lvs}

C37_VgAt(p) == C37_Enumeration[p[1]].vg.vg_name

C37_LvAt(p) == C37_Enumeration[p[1]].lvs[p[2]].lv_name

\* some tail of the name lv_name is the name of the set
C37_EndsWithSetName(lv_name) ==
    \E k \in 0..Len(lv_name) :
        SubSeq(lv_name, k + 1, Len(lv_name)) = last.module_args.snapshot_lvm_snapset_name

\* the volume at place p is one the list must leave out
C37_LeftOut(p) ==
    \/ lvs[<<C37_VgAt(p), C37_LvAt(p)>>].kind \in {"snapshot", "thinpool"}
    \/ C37_EndsWithSetName(C37_LvAt(p))

\* place p comes before place q in the enumeration
C37_Before(p, q) == p[1] < q[1] \/ (p[1] = q[1] /\ p[2] < q[2])

\* C37: the volume list assembled by get_json_from_args never contains a
\* volume that is a snapshot, a thin pool, or whose name ends with the name
\* of the set, and the remaining volumes of the inventory enumeration appear
\* in it in the order of the enumeration: the list is the enumeration with
\* exactly those volumes left out.
C37_VolumeListIsFilteredEnumeration ==
    C37_ListAssembled =>
        LET volumes == last.data.volumes
            kept == {p \in C37_Places : ~C37_LeftOut(p)}
        IN  /\ \A i \in DOMAIN volumes :
                  /\ lvs[<<volumes[i].vg, volumes[i].lv>>].kind
                        \notin {"snapshot", "thinpool"}
                  /\ ~C37_EndsWithSetName(volumes[i].lv)
            /\ Len(volumes) = Cardinality(kept)
            /\ \A i \in DOMAIN volumes :
                  \E p \in kept :
                      /\ volumes[i].vg = C37_VgAt(p)
                      /\ volumes[i].lv = C37_LvAt(p)
                      /\ Cardinality({q \in kept : C37_Before(q, p)}) = i - 1

\* a list assembled from an enumeration that holds a snapshot, a thin pool and
\* a plain volume named after the set, with two volumes remaining
C37_Witness ==
    /\ C37_ListAssembled
    /\ Len(last.data.volumes) >= 2
    /\ \E p \in C37_Places : lvs[<<C37_VgAt(p), C37_LvAt(p)>>].kind = "thinpool"
    /\ \E p \in C37_Places : lvs[<<C37_VgAt(p), C37_LvAt(p)>>].kind = "snapshot"
    /\ \E p \in C37_Places :
          /\ lvs[<<C37_VgAt(p), C37_LvAt(p)>>].kind = "plain"
          /\ C37_EndsWithSetName(C37_LvAt(p))

\* the list operation returned (the full report did not raise)
C38_Listed ==
    /\ last.op = "list"
    /\ ~IsException(last.rc)

\* the volume groups that match the arguments of the call
C38_MatchingVgs ==
    {v \in DOMAIN vgs :
        /\ last.module_args.snapshot_lvm_vg \in {"", v}
        /\ last.vg_include.is_none \/ v \in last.vg_include.search}

\* the volumes of the group v that match the arguments of the call
C38_MatchingLvs(v) ==
    {lv \in {k[2] : k \in {k \in DOMAIN lvs : k[1] = v}} :
        last.module_args.snapshot_lvm_lv \in {"", lv}}

\* C38: the list operation returns status OK with changed=false and a
\* structure in which 'volumes' maps each matching volume group that has at
\* least one matching volume to its matching volumes, each once (a group with
\* no matching volume is omitted), and 'mounts' has exactly one key for the
\* block-device path of each listed volume.
C38_ListStructure ==
    C38_Listed =>
        /\ last.rc = SnapshotStatus.SNAPSHOT_OK
        /\ last.changed = FALSE
        /\ DOMAIN last.data.volumes =
              {v \in C38_MatchingVgs : C38_MatchingLvs(v) # {}}
        /\ \A v \in DOMAIN last.data.volumes :
              LET listed == last.data.volumes[v]
              IN  /\ {listed[i].lv_name : i \in DOMAIN listed} = C38_MatchingLvs(v)
                  /\ Len(listed) = Cardinality(C38_MatchingLvs(v))
                  /\ \A i \in DOMAIN listed :
                        listed[i].lv_path = path_join(DEV_PREFIX, v, listed[i].lv_name)
        /\ DOMAIN last.data.mounts =
              {path_join(DEV_PREFIX, k[1], k[2]) :
                  k \in {k \in DOMAIN lvs : /\ k[1] \in C38_MatchingVgs
                                            /\ k[2] \in C38_MatchingLvs(k[1])}}
        /\ Cardinality(DOMAIN last.data.mounts) =
              Cardinality({k \in DOMAIN lvs : /\ k[1] \in C38_MatchingVgs
                                              /\ k[2] \in C38_MatchingLvs(k[1])})

\* a list that shows a group with several volumes, one of them mounted, and
\* omits a matching group that has no volume
C38_Witness ==
    /\ C38_Listed
    /\ \E v \in DOMAIN last.data.volumes : Len(last.data.volumes[v]) >= 2
    /\ \E v \in C38_MatchingVgs : v \notin DOMAIN last.data.volumes
    /\ \E p \in DOMAIN last.data.mounts : last.data.mounts[p] # {}

====
